---- MODULE Spec2Model ----
(***************************************************************************)
(* A model of the huecon command console (src/cli.py, src/huecon.py):      *)
(* the definition compiler, the command tree, the dispatcher (execute),    *)
(* the completion engine (complete) and the read loop.                     *)
(*                                                                         *)
(* Text is modelled as a sequence of one-character strings, so that the    *)
(* splitting, prefix matching and quoting of the source are computed and   *)
(* not assumed.  Python's None is the value None below, which no typed     *)
(* text can equal.                                                         *)
(***************************************************************************)
EXTENDS Integers, Sequences, FiniteSets, TLC

\* ------------------------------------------------------------------------
\* Text helpers (Python str operations used by the source)
\* ------------------------------------------------------------------------
None == <<"None">>

SP == " "
QT == "\""

\* not x, for x a str or None
Falsy(x) == x = None \/ x = <<>>

\* a + b
Cat(a, b) == a \o b

\* s[i:]  (0-based i)
From(s, i) == IF i >= Len(s) THEN <<>> ELSE SubSeq(s, i + 1, Len(s))

\* s[:i]  (0-based i)
Upto(s, i) == IF i <= 0 THEN <<>> ELSE SubSeq(s, 1, IF i > Len(s) THEN Len(s) ELSE i)

\* s.startswith(p)
StartsWith(s, p) == Len(p) <= Len(s) /\ SubSeq(s, 1, Len(p)) = p

\* s.endswith(p)
EndsWith(s, p) == Len(p) <= Len(s) /\ SubSeq(s, Len(s) - Len(p) + 1, Len(s)) = p

\* the 0-based positions at which p occurs in s
Occurrences(s, p) == {i \in 0..(Len(s) - Len(p)) : SubSeq(s, i + 1, i + Len(p)) = p}

\* p in s
Contains(s, p) == Occurrences(s, p) # {}

\* s.index(p), defined when p in s
IndexOf(s, p) == CHOOSE i \in Occurrences(s, p) : \A j \in Occurrences(s, p) : i <= j

\* s.rindex(p), defined when p in s
RIndexOf(s, p) == CHOOSE i \in Occurrences(s, p) : \A j \in Occurrences(s, p) : j <= i

\* s.lstrip()
RECURSIVE LStrip(_)
LStrip(s) == IF s # <<>> /\ Head(s) = SP THEN LStrip(Tail(s)) ELSE s

\* s.rstrip()
RECURSIVE RStrip(_)
RStrip(s) == IF s # <<>> /\ s[Len(s)] = SP THEN RStrip(SubSeq(s, 1, Len(s) - 1)) ELSE s

\* s.strip()
Strip(s) == RStrip(LStrip(s))

\* s.split(sep, 1) for a one-character sep that occurs in s
Split1(s, sep) == <<Upto(s, IndexOf(s, <<sep>>)), From(s, IndexOf(s, <<sep>>) + 1)>>

\* ------------------------------------------------------------------------
\* dict helpers: a Python dict is a sequence of <<key, value>> pairs in
\* insertion order with unique keys
\* ------------------------------------------------------------------------
Keys(d) == {d[i][1] : i \in 1..Len(d)}

KeyList(d) == [i \in 1..Len(d) |-> d[i][1]]

HasKey(d, k) == \E i \in 1..Len(d) : d[i][1] = k

Get(d, k) == d[CHOOSE i \in 1..Len(d) : d[i][1] = k][2]

\* d[k] = v
Put(d, k, v) ==
    IF HasKey(d, k)
    THEN [i \in 1..Len(d) |-> IF d[i][1] = k THEN <<k, v>> ELSE d[i]]
    ELSE Append(d, <<k, v>>)

\* ------------------------------------------------------------------------
\* The words of the command definition, as text
\* ------------------------------------------------------------------------
S_show == <<"s", "h", "o", "w">>

S_lights == <<"l", "i", "g", "h", "t", "s">>

S_scenes == <<"s", "c", "e", "n", "e", "s">>

S_sensors == <<"s", "e", "n", "s", "o", "r", "s">>

S_detail == <<"d", "e", "t", "a", "i", "l">>

S_name == <<"n", "a", "m", "e">>

S_id == <<"i", "d">>

S_light == <<"l", "i", "g", "h", "t">>

S_on == <<"o", "n">>

S_off == <<"o", "f", "f">>

S_exit == <<"e", "x", "i", "t">>

S_help == <<"h", "e", "l", "p">>

S_EOF == <<"E", "O", "F">>

S_pipe == <<"|">>

S_qmark == <<"?">>

T_light_id == <<"<", "l", "i", "g", "h", "t", "-", "i", "d", ">">>

T_light_name == <<"<", "l", "i", "g", "h", "t", "-", "n", "a", "m", "e", ">">>

S_None == <<"N", "o", "n", "e">>

S_cat == <<"c", "a", "t">>

S_nosuch == <<"n", "o", "s", "u", "c", "h">>

\* ------------------------------------------------------------------------
\* The console's inputs: the command definition, the bound handlers, the
\* domain objects and the argument-type registry
\* ------------------------------------------------------------------------

\* CLI_DEF, with the scenes and sensors branches cut to their summary and the
\* resourcelinks, groups and group branches (same shapes as lights and light)
\* left out.  A dict is [t |-> "dict", items], a str is [t |-> "str", s].
CLI_DEF ==
    [t |-> "dict", items |-> <<
      <<<<"s", "h", "o", "w", "|", ":", "S", "h", "o", "w", " ", "v", "a", "r", "i", "o", "u", "s", " ", "H", "u", "e", " ", "s", "y", "s", "t", "e", "m", " ", "i", "n", "f", "o">>,
       [t |-> "dict", items |-> <<
          <<<<"l", "i", "g", "h", "t", "s", ":", "S", "h", "o", "w", " ", "t", "h", "e", " ", "l", "i", "g", "h", "t", "s">>,
           [t |-> "dict", items |-> <<
              <<<<"N", "o", "n", "e", ":", "S", "h", "o", "w", " ", "s", "u", "m", "m", "a", "r", "y">>,
               [t |-> "str", s |-> "show_lights"]>>,
              <<<<"d", "e", "t", "a", "i", "l", ":", "S", "h", "o", "w", " ", "d", "e", "t", "a", "i", "l">>,
               [t |-> "str", s |-> "show_lights_detail"]>>,
              <<<<"n", "a", "m", "e", ":", "S", "h", "o", "w", " ", "s", "p", "e", "c", "i", "f", "i", "c", " ", "l", "i", "g", "h", "t", " ", "b", "y", " ", "n", "a", "m", "e">>,
               [t |-> "dict", items |-> <<
                  <<<<"<", "l", "i", "g", "h", "t", "-", "n", "a", "m", "e", ">", ":", "S", "h", "o", "w", " ", "l", "i", "g", "h", "t", " ", "w", "i", "t", "h", " ", "t", "h", "i", "s", " ", "n", "a", "m", "e">>,
                   [t |-> "str", s |-> "show_light"]>>
                >>]>>,
              <<<<"i", "d", ":", "S", "h", "o", "w", " ", "s", "p", "e", "c", "i", "f", "i", "c", " ", "l", "i", "g", "h", "t", " ", "b", "y", " ", "i", "d">>,
               [t |-> "dict", items |-> <<
                  <<<<"<", "l", "i", "g", "h", "t", "-", "i", "d", ">", ":", "S", "h", "o", "w", " ", "l", "i", "g", "h", "t", " ", "w", "i", "t", "h", " ", "t", "h", "i", "s", " ", "i", "d">>,
                   [t |-> "str", s |-> "show_light"]>>
                >>]>>
            >>]>>,
          <<<<"s", "c", "e", "n", "e", "s", ":", "S", "h", "o", "w", " ", "t", "h", "e", " ", "s", "c", "e", "n", "e", "s">>,
           [t |-> "dict", items |-> <<
              <<<<"N", "o", "n", "e", ":", "S", "h", "o", "w", " ", "s", "u", "m", "m", "a", "r", "y">>,
               [t |-> "str", s |-> "show_scenes"]>>
            >>]>>,
          <<<<"s", "e", "n", "s", "o", "r", "s", ":", "S", "h", "o", "w", " ", "t", "h", "e", " ", "s", "e", "n", "s", "o", "r", "s">>,
           [t |-> "dict", items |-> <<
              <<<<"N", "o", "n", "e", ":", "S", "h", "o", "w", " ", "s", "u", "m", "m", "a", "r", "y">>,
               [t |-> "str", s |-> "show_sensors"]>>
            >>]>>
        >>]>>,
      <<<<"l", "i", "g", "h", "t", ":", "P", "e", "r", "f", "o", "r", "m", " ", "a", "c", "t", "i", "o", "n", "s", " ", "f", "o", "r", " ", "a", " ", "l", "i", "g", "h", "t">>,
       [t |-> "dict", items |-> <<
          <<<<"i", "d", ":", "P", "e", "r", "f", "o", "r", "m", " ", "a", "c", "t", "i", "o", "n", " ", "f", "o", "r", " ", "a", " ", "l", "i", "g", "h", "t", " ", "i", "d">>,
           [t |-> "dict", items |-> <<
              <<<<"<", "l", "i", "g", "h", "t", "-", "i", "d", ">", ":", "P", "e", "r", "f", "o", "r", "m", " ", "a", "c", "t", "i", "o", "n", " ", "f", "o", "r", " ", "t", "h", "i", "s", " ", "l", "i", "g", "h", "t", " ", "i", "d">>,
               [t |-> "dict", items |-> <<
                  <<<<"o", "n", ":", "T", "u", "r", "n", " ", "l", "i", "g", "h", "t", " ", "o", "n">>,
                   [t |-> "str", s |-> "light_on"]>>,
                  <<<<"o", "f", "f", ":", "T", "u", "r", "n", " ", "l", "i", "g", "h", "t", " ", "o", "f", "f">>,
                   [t |-> "str", s |-> "light_off"]>>
                >>]>>
            >>]>>,
          <<<<"n", "a", "m", "e", ":", "P", "e", "r", "f", "o", "r", "m", " ", "a", "c", "t", "i", "o", "n", " ", "f", "o", "r", " ", "a", " ", "l", "i", "g", "h", "t", " ", "n", "a", "m", "e">>,
           [t |-> "dict", items |-> <<
              <<<<"<", "l", "i", "g", "h", "t", "-", "n", "a", "m", "e", ">", ":", "P", "e", "r", "f", "o", "r", "m", " ", "a", "c", "t", "i", "o", "n", " ", "f", "o", "r", " ", "t", "h", "i", "s", " ", "l", "i", "g", "h", "t", " ", "n", "a", "m", "e">>,
               [t |-> "dict", items |-> <<
                  <<<<"o", "n", ":", "T", "u", "r", "n", " ", "l", "i", "g", "h", "t", " ", "o", "n">>,
                   [t |-> "str", s |-> "light_on"]>>,
                  <<<<"o", "f", "f", ":", "T", "u", "r", "n", " ", "l", "i", "g", "h", "t", " ", "o", "f", "f">>,
                   [t |-> "str", s |-> "light_off"]>>
                >>]>>
            >>]>>
        >>]>>,
      <<<<"e", "x", "i", "t", ":", "E", "x", "i", "t", " ", "H", "u", "e", "c", "o", "n">>,
       [t |-> "str", s |-> "do_exit"]>>
    >>]

\* Other definitions a console may be built from

\* a definition with no pipe marker and no absent keyword
DEF_plain ==
    [t |-> "dict", items |-> <<
       <<<<"l", "i", "g", "h", "t", ":", "L", "i", "g", "h", "t">>,
         [t |-> "dict", items |-> <<
            <<<<"i", "d", ":", "B", "y", " ", "i", "d">>,
              [t |-> "dict", items |-> <<
                 <<<<"<", "l", "i", "g", "h", "t", "-", "i", "d", ">", ":", "T", "h", "i", "s", " ", "i", "d">>,
                   [t |-> "dict", items |-> <<
                      <<<<"o", "n", ":", "O", "n">>,
                        [t |-> "str", s |-> "light_on"]>>,
                      <<<<"o", "f", "f", ":", "O", "f", "f">>,
                        [t |-> "str", s |-> "light_off"]>> >>]>> >>]>> >>]>>,
       <<<<"e", "x", "i", "t", ":", "E", "x", "i", "t">>,
         [t |-> "str", s |-> "do_exit"]>> >>]

\* a definition with an absent keyword (None) and no pipe marker
DEF_absent ==
    [t |-> "dict", items |-> <<
       <<<<"s", "h", "o", "w", ":", "S", "h", "o", "w">>,
         [t |-> "dict", items |-> <<
            <<<<"N", "o", "n", "e", ":", "S", "u", "m", "m", "a", "r", "y">>,
              [t |-> "str", s |-> "show_lights"]>>,
            <<<<"d", "e", "t", "a", "i", "l", ":", "D", "e", "t", "a", "i", "l">>,
              [t |-> "str", s |-> "show_lights_detail"]>> >>]>>,
       <<<<"e", "x", "i", "t", ":", "E", "x", "i", "t">>,
         [t |-> "str", s |-> "do_exit"]>> >>]

\* a definition whose pipe marker lies above nested lists and an argument
DEF_deep ==
    [t |-> "dict", items |-> <<
       <<<<"s", "h", "o", "w", "|", ":", "S", "h", "o", "w">>,
         [t |-> "dict", items |-> <<
            <<<<"l", "i", "g", "h", "t", "s", ":", "L", "i", "g", "h", "t", "s">>,
              [t |-> "dict", items |-> <<
                 <<<<"i", "d", ":", "B", "y", " ", "i", "d">>,
                   [t |-> "dict", items |-> <<
                      <<<<"<", "l", "i", "g", "h", "t", "-", "i", "d", ">", ":", "T", "h", "i", "s", " ", "i", "d">>,
                        [t |-> "str", s |-> "show_light"]>> >>]>> >>]>>,
            <<<<"s", "c", "e", "n", "e", "s", ":", "S", "c", "e", "n", "e", "s">>,
              [t |-> "str", s |-> "show_scenes"]>> >>]>>,
       <<<<"e", "x", "i", "t", ":", "E", "x", "i", "t">>,
         [t |-> "str", s |-> "do_exit"]>> >>]

\* a definition with one action, below a key with the pipe marker
DEF_pipe ==
    [t |-> "dict", items |-> <<
       <<<<"s", "h", "o", "w", "|", ":", "S", "h", "o", "w">>,
         [t |-> "str", s |-> "show_lights"]>>,
       <<<<"e", "x", "i", "t", ":", "E", "x", "i", "t">>,
         [t |-> "str", s |-> "do_exit"]>> >>]

\* a definition with a key that has no help string
DEF_nohelp ==
    [t |-> "dict", items |-> <<
       <<<<"e", "x", "i", "t", ":", "E", "x", "i", "t">>,
         [t |-> "str", s |-> "do_exit"]>>,
       <<<<"s", "h", "o", "w", "|", ":", "S", "h", "o", "w">>,
         [t |-> "dict", items |-> <<
            <<<<"l", "i", "g", "h", "t", "s">>,
              [t |-> "str", s |-> "show_lights"]>> >>]>> >>]

\* a definition with an argument-type key that has no help string
DEF_nohelp_arg ==
    [t |-> "dict", items |-> <<
       <<<<"l", "i", "g", "h", "t", ":", "L", "i", "g", "h", "t">>,
         [t |-> "dict", items |-> <<
            <<<<"<", "l", "i", "g", "h", "t", "-", "i", "d", ">">>,
              [t |-> "str", s |-> "light_on"]>> >>]>> >>]

\* a definition that refers to an argument type the registry lacks
DEF_noarg ==
    [t |-> "dict", items |-> <<
       <<<<"l", "i", "g", "h", "t", ":", "L", "i", "g", "h", "t">>,
         [t |-> "dict", items |-> <<
            <<<<"i", "d", ":", "B", "y", " ", "i", "d">>,
              [t |-> "dict", items |-> <<
                 <<<<"<", "g", "r", "o", "u", "p", "-", "i", "d", ">", ":", "T", "h", "i", "s", " ", "i", "d">>,
                   [t |-> "str", s |-> "light_on"]>> >>]>> >>]>>,
       <<<<"e", "x", "i", "t", ":", "E", "x", "i", "t">>,
         [t |-> "str", s |-> "do_exit"]>> >>]

\* a definition that names an action function the console lacks
DEF_noaction ==
    [t |-> "dict", items |-> <<
       <<<<"e", "x", "i", "t", ":", "E", "x", "i", "t">>,
         [t |-> "str", s |-> "do_exit"]>>,
       <<<<"l", "i", "g", "h", "t", ":", "L", "i", "g", "h", "t">>,
         [t |-> "dict", items |-> <<
            <<<<"<", "l", "i", "g", "h", "t", "-", "i", "d", ">", ":", "T", "h", "i", "s", " ", "i", "d">>,
              [t |-> "dict", items |-> <<
                 <<<<"o", "n", ":", "O", "n">>,
                   [t |-> "str", s |-> "light_on"]>>,
                 <<<<"o", "f", "f", ":", "O", "f", "f">>,
                   [t |-> "str", s |-> "light_dim"]>> >>]>> >>]>> >>]

\* a definition with a value that is neither a dict nor a str
DEF_shape ==
    [t |-> "dict", items |-> <<
       <<<<"s", "h", "o", "w", "|", ":", "S", "h", "o", "w">>,
         [t |-> "dict", items |-> <<
            <<<<"N", "o", "n", "e", ":", "S", "u", "m", "m", "a", "r", "y">>,
              [t |-> "str", s |-> "show_lights"]>>,
            <<<<"d", "e", "t", "a", "i", "l", ":", "D", "e", "t", "a", "i", "l">>,
              [t |-> "list"]>> >>]>> >>]

\* a definition with a keyword that is the opening part of another keyword
\* of its list
DEF_prefix ==
    [t |-> "dict", items |-> <<
       <<<<"l", "i", "g", "h", "t", ":", "L", "i", "g", "h", "t">>,
         [t |-> "dict", items |-> <<
            <<<<"o", "n", ":", "O", "n">>,
              [t |-> "str", s |-> "light_on"]>> >>]>>,
       <<<<"l", "i", "g", "h", "t", "s", ":", "L", "i", "g", "h", "t", "s">>,
         [t |-> "str", s |-> "show_lights"]>>,
       <<<<"e", "x", "i", "t", ":", "E", "x", "i", "t">>,
         [t |-> "str", s |-> "do_exit"]>> >>]

\* the definitions given to Interface.__init__
Definitions ==
    {CLI_DEF, DEF_plain, DEF_absent, DEF_deep, DEF_pipe, DEF_prefix, DEF_nohelp,
     DEF_nohelp_arg, DEF_noarg, DEF_noaction, DEF_shape}

\* the action functions bound on the console (hasattr(self, name))
Handlers ==
    {"show_lights", "show_lights_detail", "show_light", "show_scenes",
     "show_sensors", "light_on", "light_off", "do_exit"}

\* bridge.get_lights(): the lights of the bridge, each with an id and a
\* free-text name
Lights ==
    << [id |-> <<"1">>, name |-> <<"L", "i", "v", "i", "n", "g", " ", "R", "o", "o", "m">>],
       [id |-> <<"2">>, name |-> <<"A", "\"", " ", "B">>] >>

\* arg_defs, as HueCon.__init__ builds it: ObjectIDArg(func, name) has
\* name "<name>-id", ObjectNameArg has "<name>-name"; both bind ctx_name
ArgDefs ==
    << <<T_light_id, [cls |-> "ObjectIDArg", name |-> "light-id", ctx_name |-> "light"]>>,
       <<T_light_name, [cls |-> "ObjectNameArg", name |-> "light-name", ctx_name |-> "light"]>> >>

\* _PipeArgDef(): ArgumentDef("shell-cmd")
PipeArgDef == [cls |-> "_PipeArgDef", name |-> "shell-cmd", ctx_name |-> "shell-cmd"]

\* the words that shutil.which resolves on the search path
OnPath == {S_cat}

\* ------------------------------------------------------------------------
\* The command tree and the definition compiler
\* ------------------------------------------------------------------------

\* _CLIList(helpstr, elems)
CLIList(helpstr, elems) == [type |-> "_CLIList", helpstr |-> helpstr, elems |-> elems]

\* _CLIArgument(helpstr, elem, arg_def)
CLIArgument(helpstr, elem, arg_def) ==
    [type |-> "_CLIArgument", helpstr |-> helpstr, elem |-> elem, def |-> arg_def]

\* _CLIAction(helpstr, function); the function is the handler's name, or
\* "None" for the help keyword's absent function
CLIAction(helpstr, function) ==
    [type |-> "_CLIAction", helpstr |-> helpstr, function |-> function]

\* _PipeAction(cli_action): a _CLIAction whose function is its own _run_pipe
PipeAction(cli_action) ==
    [type |-> "_PipeAction",
     helpstr |-> <<"P", "i", "p", "e", " ", "o", "u", "t", "p", "u", "t">>,
     function |-> "_run_pipe", cli_action |-> cli_action]

\* raise Error(...) while compiling
CompileError(msg, what) == [type |-> "Error", msg |-> msg, what |-> what]

IsError(n) == n.type = "Error"

\* the " (pipe output to shell command)" suffix of a pipe argument's help
PIPE_HELP == <<" ", "(", "p", "i", "p", "e", ")">>

COLON == ":"

RECURSIVE ParseCliElem(_, _, _, _)
RECURSIVE ParseItems(_, _, _, _, _)

\* the for loop without the check for a help string: a key with no ":" is
\* taken as a keyword with an empty help
ParseItems_NoHelpCheck(parent_name, items, i, elems, apply_pipe) ==
    IF i > Len(items) THEN CLIList(<<>>, elems)
    ELSE
        LET key == items[i][1]
            value == items[i][2]
            kv == IF Contains(key, <<COLON>>) THEN Split1(key, COLON) ELSE <<key, <<>>>>
            ch_help == kv[2]
            ch_apply_pipe == IF kv[1] # S_None /\ EndsWith(kv[1], S_pipe)
                             THEN TRUE ELSE apply_pipe
            ch_name == IF kv[1] = S_None THEN None
                       ELSE IF EndsWith(kv[1], S_pipe)
                            THEN Upto(kv[1], Len(kv[1]) - 1)
                            ELSE kv[1]
            child == ParseCliElem(ch_name, ch_help, value, ch_apply_pipe)
        IN  IF IsError(child) THEN child
            ELSE ParseItems(parent_name, items, i + 1,
                            Put(elems, ch_name, child), apply_pipe)

\* the for loop of the keyword command list: items[i..] compiled into elems
ParseItems(parent_name, items, i, elems, apply_pipe) ==
    IF i > Len(items) THEN CLIList(<<>>, elems)
    ELSE
        LET key == items[i][1]
            value == items[i][2]
        IN  IF ~Contains(key, <<COLON>>)
            THEN CompileError("Missing help string", key)
            ELSE
                LET kv == Split1(key, COLON)
                    ch_help == kv[2]
                    ch_apply_pipe == IF kv[1] # S_None /\ EndsWith(kv[1], S_pipe)
                                     THEN TRUE ELSE apply_pipe
                    ch_name == IF kv[1] = S_None THEN None
                               ELSE IF EndsWith(kv[1], S_pipe)
                                    THEN Upto(kv[1], Len(kv[1]) - 1)
                                    ELSE kv[1]
                    child == ParseCliElem(ch_name, ch_help, value, ch_apply_pipe)
                IN  IF IsError(child) THEN child
                    ELSE ParseItems(parent_name, items, i + 1,
                                    Put(elems, ch_name, child), apply_pipe)

\* _parse_cli_elem that compiles what follows an argument without the pipe
\* option
ParseCliElem_ArgClears(parent_name, helpstr, contents, apply_pipe) ==
    IF contents.t = "dict" /\ Len(contents.items) = 1
       /\ StartsWith(contents.items[1][1], <<"<">>)
    THEN \* variable argument
        LET key == contents.items[1][1]
            value == contents.items[1][2]
        IN  IF ~Contains(key, <<COLON>>)
            THEN CompileError("Missing help string", key)
            ELSE
                LET arg_type == Split1(key, COLON)[1]
                    ch_help == Split1(key, COLON)[2]
                IN  IF ~HasKey(ArgDefs, arg_type)
                    THEN CompileError("No arg def", arg_type)
                    ELSE
                        LET child == ParseCliElem(arg_type, ch_help, value, FALSE)
                        IN  IF IsError(child) THEN child
                            ELSE CLIArgument(helpstr, child, Get(ArgDefs, arg_type))
    ELSE IF contents.t = "dict"
    THEN \* keyword command list
        LET parsed == ParseItems(parent_name, contents.items, 1, <<>>, apply_pipe)
        IN  IF IsError(parsed) THEN parsed
            ELSE
                LET elems == parsed.elems
                IN  IF HasKey(elems, None)
                    THEN CLIList(helpstr,
                                 Put(elems, S_pipe,
                                     CLIArgument(Cat(Get(elems, None).helpstr, PIPE_HELP),
                                                 PipeAction(Get(elems, None)),
                                                 PipeArgDef)))
                    ELSE CLIList(helpstr, elems)
    ELSE IF contents.t = "str"
    THEN \* action
        IF contents.s \notin Handlers
        THEN CompileError("Cannot find action function", contents.s)
        ELSE
            LET action == CLIAction(helpstr, contents.s)
            IN  IF ~apply_pipe THEN action
                ELSE CLIList(helpstr,
                             << <<None, action>>,
                                <<S_pipe, CLIArgument(Cat(helpstr, PIPE_HELP),
                                                      PipeAction(action), PipeArgDef)>> >>)
    ELSE CompileError("Unknown cli definition contents", parent_name)

\* Interface._parse_cli_elem
ParseCliElem(parent_name, helpstr, contents, apply_pipe) ==
    IF contents.t = "dict" /\ Len(contents.items) = 1
       /\ StartsWith(contents.items[1][1], <<"<">>)
    THEN \* variable argument
        LET key == contents.items[1][1]
            value == contents.items[1][2]
        IN  IF ~Contains(key, <<COLON>>)
            THEN CompileError("Missing help string", key)
            ELSE
                LET arg_type == Split1(key, COLON)[1]
                    ch_help == Split1(key, COLON)[2]
                IN  IF ~HasKey(ArgDefs, arg_type)
                    THEN CompileError("No arg def", arg_type)
                    ELSE
                        LET child == ParseCliElem(arg_type, ch_help, value, apply_pipe)
                        IN  IF IsError(child) THEN child
                            ELSE CLIArgument(helpstr, child, Get(ArgDefs, arg_type))
    ELSE IF contents.t = "dict"
    THEN \* keyword command list
        LET parsed == ParseItems(parent_name, contents.items, 1, <<>>, apply_pipe)
        IN  IF IsError(parsed) THEN parsed
            ELSE
                LET elems == parsed.elems
                IN  IF HasKey(elems, None)
                    THEN CLIList(helpstr,
                                 Put(elems, S_pipe,
                                     CLIArgument(Cat(Get(elems, None).helpstr, PIPE_HELP),
                                                 PipeAction(Get(elems, None)),
                                                 PipeArgDef)))
                    ELSE CLIList(helpstr, elems)
    ELSE IF contents.t = "str"
    THEN \* action
        IF contents.s \notin Handlers
        THEN CompileError("Cannot find action function", contents.s)
        ELSE
            LET action == CLIAction(helpstr, contents.s)
            IN  IF ~apply_pipe THEN action
                ELSE CLIList(helpstr,
                             << <<None, action>>,
                                <<S_pipe, CLIArgument(Cat(helpstr, PIPE_HELP),
                                                      PipeAction(action), PipeArgDef)>> >>)
    ELSE CompileError("Unknown cli definition contents", parent_name)

\* Interface._parse_cli
ParseCli(cli_def) ==
    ParseCliElem(<<"<", "r", "o", "o", "t", ">">>,
                 <<"M", "a", "i", "n", " ", "c", "o", "m", "m", "a", "n", "d", "s">>,
                 cli_def, FALSE)

\* _CLIList.add_keyword
AddKeyword(list, kw, elem) == [list EXCEPT !.elems = Put(list.elems, kw, elem)]

\* _Cmd.__init__: self.cli_list, the compiled tree with the help keyword added
CmdInit(cli_list) ==
    AddKeyword(cli_list, S_help,
               CLIAction(<<"D", "i", "s", "p", "l", "a", "y", " ", "h", "e", "l", "p">>, "None"))

\* the console's tree for CLI_DEF
CliList == CmdInit(ParseCli(CLI_DEF))

\* The console's definition and its tree
VARIABLES
    cli_def,     \* the definition given to Interface.__init__
    cli_list     \* _Cmd.cli_list, the compiled tree; None until it is built

\* the edges of the tree: a list's child is under its keyword, an argument's
\* under _elem, a pipe action's wrapped element under _cli_action
E_elem == <<"_elem">>

E_cli_action == <<"_cli_action">>

Child(node, edge) ==
    IF node.type = "_CLIList" THEN Get(node.elems, edge)
    ELSE IF node.type = "_CLIArgument" THEN node.elem
    ELSE node.cli_action

\* the node a path of edges leads to, from the root list
RECURSIVE NodeFrom(_, _)
NodeFrom(node, path) ==
    IF path = <<>> THEN node ELSE NodeFrom(Child(node, Head(path)), Tail(path))

NodeAt(path) == NodeFrom(cli_list, path)

\* ------------------------------------------------------------------------
\* Argument definitions (the argument contract)
\* ------------------------------------------------------------------------

\* ArgumentDef.splitline: <<argument, remainder>>
DefaultSplitline(line) ==
    IF ~Falsy(line) /\ Contains(line, <<SP>>) THEN Split1(line, SP) ELSE <<line, None>>

\* splitline that ends a quoted name at its last quote followed by a space
NameSplitline_LastQuote(arg) ==
    IF ~Falsy(arg) /\ arg[1] = QT
    THEN IF ~Contains(From(arg, 1), <<QT, SP>>)
         THEN <<arg, None>>
         ELSE LET end == RIndexOf(From(arg, 1), <<QT, SP>>)
              IN  <<Upto(arg, end + 2), LStrip(From(arg, end + 2))>>
    ELSE DefaultSplitline(arg)

\* ObjectNameArg.splitline
NameSplitline(arg) ==
    IF ~Falsy(arg) /\ arg[1] = QT
    THEN IF ~Contains(From(arg, 1), <<QT, SP>>)
         THEN <<arg, None>>
         ELSE LET end == IndexOf(From(arg, 1), <<QT, SP>>)
              IN  <<Upto(arg, end + 2), LStrip(From(arg, end + 2))>>
    ELSE DefaultSplitline(arg)

\* _PipeArgDef.splitline
PipeSplitline(line) == <<line, None>>

\* arg_def.splitline(ctx, line)
Splitline(def, line) ==
    IF def.cls = "ObjectNameArg" THEN NameSplitline(line)
    ELSE IF def.cls = "_PipeArgDef" THEN PipeSplitline(line)
    ELSE DefaultSplitline(line)

\* {o.<field>: o for o in get_fn()}: a later object replaces an earlier one
RECURSIVE ObjectsBy(_, _, _)
ObjectsBy(field, objs, d) ==
    IF objs = <<>> THEN d
    ELSE ObjectsBy(field, Tail(objs),
                   Put(d, IF field = "id" THEN Head(objs).id ELSE Head(objs).name, Head(objs)))

\* the result of process: a value, or an ArgumentError with its arg_val
Processed(value) == [ok |-> TRUE, value |-> value, msg |-> "", arg_val |-> None]

ArgumentError(msg, arg_val) ==
    [ok |-> FALSE, value |-> [str |-> <<>>], msg |-> msg, arg_val |-> arg_val]

\* ArgumentDef.process: the text itself
DefaultProcess(arg) == Processed([str |-> arg])

\* ObjectIDArg.process
IDProcess(arg) ==
    LET objects == ObjectsBy("id", Lights, <<>>)
    IN  IF HasKey(objects, arg) THEN Processed(Get(objects, arg))
        ELSE ArgumentError("Unknown ID", None)

\* ObjectNameArg.process
NameProcess(arg0) ==
    LET objects == ObjectsBy("name", Lights, <<>>)
        arg == IF Len(arg0) > 1 /\ arg0[1] = QT /\ arg0[Len(arg0)] = QT
               THEN SubSeq(arg0, 2, Len(arg0) - 1) ELSE arg0
    IN  IF HasKey(objects, arg) THEN Processed(Get(objects, arg))
        ELSE ArgumentError("Unknown name", arg)

\* arg_def.process(ctx, arg)
Process(def, arg) ==
    IF def.cls = "ObjectIDArg" THEN IDProcess(arg)
    ELSE IF def.cls = "ObjectNameArg" THEN NameProcess(arg)
    ELSE DefaultProcess(arg)

\* '"{}"'.format(name)
Quoted(name) == <<QT>> \o name \o <<QT>>

\* ObjectIDArg.complete
IDComplete(arg) ==
    LET Test(o) == StartsWith(o.id, arg)
        objs == SelectSeq(Lights, Test)
    IN  [i \in 1..Len(objs) |-> objs[i].id]

\* ObjectNameArg.complete
NameComplete(arg) ==
    LET Test(o) == StartsWith(Quoted(o.name), arg)
        objs == SelectSeq(Lights, Test)
    IN  [i \in 1..Len(objs) |-> Quoted(objs[i].name)]

\* arg_def.complete(ctx, arg); ArgumentDef.complete returns []
DefComplete(def, arg) ==
    IF def.cls = "ObjectIDArg" THEN IDComplete(arg)
    ELSE IF def.cls = "ObjectNameArg" THEN NameComplete(arg)
    ELSE <<>>

\* ------------------------------------------------------------------------
\* The dispatcher: one node's execute(ctx, line), as the step it takes
\* ------------------------------------------------------------------------

\* a Context that starts with a keyword on its trail and its flag set
NewContext_Used == [kws |-> <<S_show>>, args |-> <<>>, end |-> TRUE]

\* Context(cmd_inst)
NewContext == [kws |-> <<>>, args |-> <<>>, end |-> FALSE]

\* a printed line: what it says, the node or contract it names, and the
\* user's text it quotes
Msg(msg, who, text) == [msg |-> msg, who |-> who, text |-> text]

\* what one execute does: "exec" the child under edge with line, "return"
\* after printing out, "raise" exc, or "call" the action's function
Step(act, edge, line, ctx, out, function) ==
    [act |-> act, edge |-> edge, line |-> line, ctx |-> ctx, out |-> out,
     function |-> function]

StepExec(edge, line, ctx) == Step("exec", edge, line, ctx, <<>>, "")

StepReturn(ctx, out) == Step("return", <<>>, None, ctx, out, "")

StepRaise(ctx, out) == Step("raise", <<>>, None, ctx, out, "CommandError")

StepCall(ctx, function) == Step("call", <<>>, None, ctx, <<>>, function)

\* _CLIList.splitline: <<cmd, remainder>>
ListSplitline(line) ==
    IF Contains(line, <<SP>>)
    THEN <<Split1(line, SP)[1], LStrip(Split1(line, SP)[2])>>
    ELSE <<line, None>>

\* get_matches that stops at the first keyword that matches
GetMatches_First(self, text) ==
    IF text = None /\ HasKey(self.elems, None) THEN <<None>>
    ELSE LET Test(c) == c # None /\ StartsWith(c, text)
             all == SelectSeq(KeyList(self.elems), Test)
         IN  IF all = <<>> THEN <<>> ELSE <<all[1]>>

\* _CLIList.get_matches
GetMatches(self, text) ==
    IF text = None /\ HasKey(self.elems, None) THEN <<None>>
    ELSE LET Test(c) == c # None /\ StartsWith(c, text)
         IN  SelectSeq(KeyList(self.elems), Test)

\* do_exec that appends the keyword twice
DoExec_Twice(ctx, name, remainder) ==
    StepExec(name, remainder, [ctx EXCEPT !.kws = Append(Append(@, name), name)])

\* do_exec(name) of _CLIList.execute
DoExec(ctx, name, remainder) ==
    StepExec(name, remainder, [ctx EXCEPT !.kws = Append(@, name)])

\* execute that appends the text typed, as complete does, when it matched a
\* prefix
ListExecute_TypedTrail(self, ctx, line) ==
    LET sl == IF line = None THEN <<None, None>> ELSE ListSplitline(line)
        cmd == IF Falsy(sl[1]) THEN None ELSE sl[1]
        remainder == sl[2]
    IN  IF cmd = S_qmark
        THEN StepReturn(ctx, <<Msg("help", "_CLIList", self.helpstr)>>)
        ELSE IF HasKey(self.elems, cmd) THEN DoExec(ctx, cmd, remainder)
        ELSE IF cmd = None
        THEN StepReturn(ctx, <<Msg("!! Missing keyword", "", <<>>)>>)
        ELSE LET matches == GetMatches(self, cmd)
             IN  IF matches = <<>>
                 THEN StepReturn(ctx, <<Msg("!! Unknown keyword", "", cmd)>>)
                 ELSE IF Len(matches) > 1
                 THEN StepReturn(ctx, <<Msg("!! Ambiguous keyword", "", cmd)>>)
                 ELSE StepExec(matches[1], remainder,
                               [ctx EXCEPT !.kws = Append(@, cmd)])

\* execute that looks for the keywords the token starts before it looks for
\* the token among the keywords
ListExecute_PrefixFirst(self, ctx, line) ==
    LET sl == IF line = None THEN <<None, None>> ELSE ListSplitline(line)
        cmd == IF Falsy(sl[1]) THEN None ELSE sl[1]
        remainder == sl[2]
        matches == IF cmd = None THEN <<>> ELSE GetMatches(self, cmd)
    IN  IF cmd = S_qmark
        THEN StepReturn(ctx, <<Msg("help", "_CLIList", self.helpstr)>>)
        ELSE IF Len(matches) > 1
        THEN StepReturn(ctx, <<Msg("!! Ambiguous keyword", "", cmd)>>)
        ELSE IF HasKey(self.elems, cmd) THEN DoExec(ctx, cmd, remainder)
        ELSE IF cmd = None
        THEN StepReturn(ctx, <<Msg("!! Missing keyword", "", <<>>)>>)
        ELSE IF matches = <<>>
        THEN StepReturn(ctx, <<Msg("!! Unknown keyword", "", cmd)>>)
        ELSE DoExec(ctx, matches[1], remainder)

\* _CLIList.execute
ListExecute(self, ctx, line) ==
    LET sl == IF line = None THEN <<None, None>> ELSE ListSplitline(line)
        cmd == IF Falsy(sl[1]) THEN None ELSE sl[1]
        remainder == sl[2]
    IN  IF cmd = S_qmark
        THEN StepReturn(ctx, <<Msg("help", "_CLIList", self.helpstr)>>)
        ELSE IF HasKey(self.elems, cmd) THEN DoExec(ctx, cmd, remainder)
        ELSE IF cmd = None
        THEN StepReturn(ctx, <<Msg("!! Missing keyword", "", <<>>)>>)
        ELSE LET matches == GetMatches(self, cmd)
             IN  IF matches = <<>>
                 THEN StepReturn(ctx, <<Msg("!! Unknown keyword", "", cmd)>>)
                 ELSE IF Len(matches) > 1
                 THEN StepReturn(ctx, <<Msg("!! Ambiguous keyword", "", cmd)>>)
                 ELSE DoExec(ctx, matches[1], remainder)

\* execute that calls the function whatever follows on the line
ActionExecute_IgnoreInput(self, ctx, line) ==
    IF ~Falsy(line) /\ Strip(line) = S_qmark
    THEN StepReturn(ctx, <<Msg("help", "_CLIAction", self.helpstr)>>)
    ELSE StepCall(ctx, self.function)

\* _CLIAction.execute
ActionExecute(self, ctx, line) ==
    IF ~Falsy(line) /\ Strip(line) = S_qmark
    THEN StepReturn(ctx, <<Msg("help", "_CLIAction", self.helpstr)>>)
    ELSE IF ~Falsy(line)
    THEN StepReturn(ctx, <<Msg("!! Unexpected input", "", line)>>)
    ELSE StepCall(ctx, self.function)

\* execute without the check for the help mark: "?" is processed as a value
ArgumentExecute_NoHelp(self, ctx, line) ==
    IF Falsy(line)
    THEN StepReturn(ctx, <<Msg("!! Missing argument", self.def.name, <<>>)>>)
    ELSE LET arg == Splitline(self.def, line)[1]
             remainder == Splitline(self.def, line)[2]
             res == Process(self.def, arg)
         IN  IF ~res.ok
             THEN StepRaise(ctx, <<Msg("Invalid argument", self.def.name,
                                       IF res.arg_val # None THEN res.arg_val ELSE arg)>>)
             ELSE StepExec(E_elem, remainder,
                           [ctx EXCEPT !.args = Put(@, self.def.ctx_name, res.value)])

\* execute that binds the text typed before it is processed
ArgumentExecute_BindFirst(self, ctx, line) ==
    IF Falsy(line)
    THEN StepReturn(ctx, <<Msg("!! Missing argument", self.def.name, <<>>)>>)
    ELSE IF Strip(line) = S_qmark
    THEN StepReturn(ctx, <<Msg("help", "_CLIArgument", self.elem.helpstr)>>)
    ELSE LET arg == Splitline(self.def, line)[1]
             remainder == Splitline(self.def, line)[2]
             res == Process(self.def, arg)
             bound == [ctx EXCEPT !.args = Put(@, self.def.ctx_name, [str |-> arg])]
         IN  IF ~res.ok
             THEN StepRaise(bound, <<Msg("Invalid argument", self.def.name,
                                         IF res.arg_val # None THEN res.arg_val ELSE arg)>>)
             ELSE StepExec(E_elem, remainder,
                           [ctx EXCEPT !.args = Put(@, self.def.ctx_name, res.value)])

\* execute that takes an empty line as an empty token for the shell command
ArgumentExecute_EmptyToken(self, ctx, line) ==
    IF Falsy(line) /\ self.def.cls # "_PipeArgDef"
    THEN StepReturn(ctx, <<Msg("!! Missing argument", self.def.name, <<>>)>>)
    ELSE IF Falsy(line)
    THEN StepExec(E_elem, None,
                  [ctx EXCEPT !.args = Put(@, self.def.ctx_name, [str |-> <<>>])])
    ELSE IF Strip(line) = S_qmark
    THEN StepReturn(ctx, <<Msg("help", "_CLIArgument", self.elem.helpstr)>>)
    ELSE LET arg == Splitline(self.def, line)[1]
             remainder == Splitline(self.def, line)[2]
             res == Process(self.def, arg)
         IN  IF ~res.ok
             THEN StepRaise(ctx, <<Msg("Invalid argument", self.def.name,
                                       IF res.arg_val # None THEN res.arg_val ELSE arg)>>)
             ELSE StepExec(E_elem, remainder,
                           [ctx EXCEPT !.args = Put(@, self.def.ctx_name, res.value)])

\* _CLIArgument.execute
ArgumentExecute(self, ctx, line) ==
    IF Falsy(line)
    THEN StepReturn(ctx, <<Msg("!! Missing argument", self.def.name, <<>>)>>)
    ELSE IF Strip(line) = S_qmark
    THEN StepReturn(ctx, <<Msg("help", "_CLIArgument", self.elem.helpstr)>>)
    ELSE LET arg == Splitline(self.def, line)[1]
             remainder == Splitline(self.def, line)[2]
             res == Process(self.def, arg)
         IN  IF ~res.ok
             THEN StepRaise(ctx, <<Msg("Invalid argument", self.def.name,
                                       IF res.arg_val # None THEN res.arg_val ELSE arg)>>)
             ELSE StepExec(E_elem, remainder,
                           [ctx EXCEPT !.args = Put(@, self.def.ctx_name, res.value)])

\* node.execute(ctx, line), by the node's class
Execute(self, ctx, line) ==
    IF self.type = "_CLIList" THEN ListExecute(self, ctx, line)
    ELSE IF self.type = "_CLIArgument" THEN ArgumentExecute(self, ctx, line)
    ELSE ActionExecute(self, ctx, line)

\* ------------------------------------------------------------------------
\* The completion engine: one node's complete(ctx, line), as the step it takes
\* ------------------------------------------------------------------------

\* what one complete does: "complete" the child under edge with line, or
\* "return" results (none: the Python None, no list at all)
CStep(act, edge, line, ctx, results, none) ==
    [act |-> act, edge |-> edge, line |-> line, ctx |-> ctx, results |-> results,
     none |-> none]

CStepInto(edge, line, ctx) == CStep("complete", edge, line, ctx, <<>>, TRUE)

CStepReturn(ctx, results) == CStep("return", <<>>, None, ctx, results, FALSE)

CStepNone(ctx) == CStep("return", <<>>, None, ctx, <<>>, TRUE)

\* complete that goes on only below a keyword typed in full
ListComplete_Exact(self, ctx, line) ==
    LET cmd == ListSplitline(line)[1]
        remainder == ListSplitline(line)[2]
    IN  IF remainder # None
        THEN IF HasKey(self.elems, cmd)
             THEN CStepInto(cmd, remainder, [ctx EXCEPT !.kws = Append(@, cmd)])
             ELSE CStepNone(ctx)
        ELSE LET Test(c) == c # None /\ StartsWith(c, cmd)
                 kws == SelectSeq(KeyList(self.elems), Test)
                 results == [i \in 1..Len(kws) |-> Cat(kws[i], <<SP>>)]
             IN  CStepReturn(ctx, IF Falsy(cmd) /\ HasKey(self.elems, None)
                                  THEN Append(results, <<>>) ELSE results)

\* complete that offers the empty completion whatever has been typed
ListComplete_AlwaysEmpty(self, ctx, line) ==
    LET cmd == ListSplitline(line)[1]
        remainder == ListSplitline(line)[2]
    IN  IF remainder # None
        THEN LET matches == GetMatches(self, cmd)
             IN  IF Len(matches) = 1
                 THEN CStepInto(matches[1], remainder,
                                [ctx EXCEPT !.kws = Append(@, cmd)])
                 ELSE CStepNone(ctx)
        ELSE LET Test(c) == c # None /\ StartsWith(c, cmd)
                 kws == SelectSeq(KeyList(self.elems), Test)
                 results == [i \in 1..Len(kws) |-> Cat(kws[i], <<SP>>)]
             IN  CStepReturn(ctx, IF HasKey(self.elems, None)
                                  THEN Append(results, <<>>) ELSE results)

\* _CLIList.complete
ListComplete(self, ctx, line) ==
    LET cmd == ListSplitline(line)[1]
        remainder == ListSplitline(line)[2]
    IN  IF remainder # None
        THEN LET matches == GetMatches(self, cmd)
             IN  IF Len(matches) = 1
                 THEN CStepInto(matches[1], remainder,
                                [ctx EXCEPT !.kws = Append(@, cmd)])
                 ELSE CStepNone(ctx)
        ELSE LET Test(c) == c # None /\ StartsWith(c, cmd)
                 kws == SelectSeq(KeyList(self.elems), Test)
                 results == [i \in 1..Len(kws) |-> Cat(kws[i], <<SP>>)]
             IN  CStepReturn(ctx, IF Falsy(cmd) /\ HasKey(self.elems, None)
                                  THEN Append(results, <<>>) ELSE results)

\* fixup that keeps the whole candidate
Fixup_Whole(line, txt) == Cat(txt, <<SP>>)

\* fixup(txt) of _CLIArgument.complete
Fixup(line, txt) ==
    IF Contains(line, <<SP>>)
    THEN Cat(From(txt, RIndexOf(line, <<SP>>) + 1), <<SP>>)
    ELSE Cat(txt, <<SP>>)

\* complete that binds the text typed when its validation fails
ArgumentComplete_BindRaw(self, ctx, line) ==
    LET arg == Splitline(self.def, line)[1]
        remainder == Splitline(self.def, line)[2]
    IN  IF remainder # None
        THEN LET res == Process(self.def, arg)
             IN  CStepInto(E_elem, remainder,
                           [ctx EXCEPT !.args = Put(@, self.def.ctx_name,
                                                    IF res.ok THEN res.value
                                                    ELSE [str |-> arg])])
        ELSE LET cands == DefComplete(self.def, line)
             IN  CStepReturn(ctx, [i \in 1..Len(cands) |-> Fixup(line, cands[i])])

\* _CLIArgument.complete
ArgumentComplete(self, ctx, line) ==
    LET arg == Splitline(self.def, line)[1]
        remainder == Splitline(self.def, line)[2]
    IN  IF remainder # None
        THEN LET res == Process(self.def, arg)
             IN  CStepInto(E_elem, remainder,
                           IF res.ok
                           THEN [ctx EXCEPT !.args = Put(@, self.def.ctx_name, res.value)]
                           ELSE ctx)
        ELSE LET cands == DefComplete(self.def, line)
             IN  CStepReturn(ctx, [i \in 1..Len(cands) |-> Fixup(line, cands[i])])

\* _CLIBase.complete, which the actions inherit: pass
BaseComplete(self, ctx, line) == CStepNone(ctx)

\* node.complete(ctx, line), by the node's class
Complete(self, ctx, line) ==
    IF self.type = "_CLIList" THEN ListComplete(self, ctx, line)
    ELSE IF self.type = "_CLIArgument" THEN ArgumentComplete(self, ctx, line)
    ELSE BaseComplete(self, ctx, line)

\* ------------------------------------------------------------------------
\* The input the user types
\* ------------------------------------------------------------------------

\* the most words typed after a leading part that follows the tree
MaxTail == 2

\* the words typed off the tree: nothing (a doubled or trailing space), the
\* help mark, prefixes of keywords, an unknown word, the opening part of a name
TailWords ==
    {<<>>, S_qmark, <<"s">>, <<"l">>, <<"h">>, <<"x">>,
     <<QT, "L", "i", "v", "i", "n", "g">>}

\* the shell commands typed after a pipe
ShellWords == {S_cat, S_nosuch}

\* the words that follow the tree from a node on: keywords in full, the ids
\* and quoted names of the lights, a shell command after a pipe
RECURSIVE WordsFrom(_)
WordsFrom(n) ==
    {<<>>} \cup
    (IF n.type = "_CLIList"
     THEN UNION {IF k = None THEN WordsFrom(Get(n.elems, k))
                 ELSE {<<k>> \o w : w \in WordsFrom(Get(n.elems, k))} : k \in Keys(n.elems)}
     ELSE IF n.type = "_CLIArgument"
     THEN LET vals == IF n.def.cls = "ObjectIDArg"
                      THEN {Lights[i].id : i \in 1..Len(Lights)}
                      ELSE IF n.def.cls = "ObjectNameArg"
                      THEN {Quoted(Lights[i].name) : i \in 1..Len(Lights)}
                      ELSE ShellWords
          IN  UNION {{<<v>> \o w : w \in WordsFrom(n.elem)} : v \in vals}
     ELSE {})

\* the sequences of at most n tail words
RECURSIVE Tails(_)
Tails(n) ==
    IF n = 0 THEN {<<>>}
    ELSE Tails(n - 1) \cup {Append(t, w) : t \in Tails(n - 1), w \in TailWords}

\* " ".join(words)
RECURSIVE Join(_)
Join(words) ==
    IF words = <<>> THEN <<>>
    ELSE IF Len(words) = 1 THEN words[1]
    ELSE words[1] \o <<SP>> \o Join(Tail(words))

\* the lines the user may type: a leading part on the tree, then tail words;
\* the same after the word help; and the word EOF
InputLines ==
    LET body == {Join(w \o t) : w \in WordsFrom(cli_list), t \in Tails(MaxTail)}
    IN  body \cup {S_help \o <<SP>> \o b : b \in body} \cup {S_EOF}

\* ------------------------------------------------------------------------
\* The read loop (_Cmd) as a state machine
\* ------------------------------------------------------------------------
VARIABLES
    pc,          \* where the console is: "init" (Interface.__init__ entered),
                 \* "prompt", "onecmd", "exec", "pipe_which", "pipe_spawned",
                 \* "pipe_loop", "pipe_join", "pipe_check",
                 \* "postcmd", "complete", "completed", "done" (loop ended),
                 \* "crashed" (exception escaped)
    eof,         \* the input has reached end-of-input
    line,        \* the line handed to onecmd, or to completedefault
    via,         \* how the tree was entered: "direct" (onecmd) or "help" (do_help)
    node,        \* the path of the node whose execute or complete runs next
    rem,         \* the remaining line that node is given
    ctx,         \* the Context of this line
    out,         \* what has been printed on the console for this line
    calls,       \* the action functions invoked for this line, in order
    stop,        \* what onecmd returned: "None", "True" or "False"
    exc,         \* the exception that escaped the loop, or "None"
    results,     \* what completedefault returned: [none, list]
    frame,       \* "pipe" while _run_pipe runs the wrapped element, else "top"
    buf,         \* _run_pipe's buffer: what was printed while capturing
    proc,        \* the external process: "none", "running" or "exited"
    proc_in,     \* what the external process has received on its input
    worker,      \* the do_pipe thread: "none", "running" or "done"
    thread_exc,  \* the worker's exception slot: "None" or the exception
    stray        \* the processes left behind by a _run_pipe that an interrupt cut
                 \* short: "fed" (its worker runs) or "unfed" (no worker)

vars == <<cli_def, cli_list, pc, eof, line, via, node, rem, ctx, out, calls, stop, exc, results,
          frame, buf, proc, proc_in, worker, thread_exc, stray>>

pipevars == <<buf, proc, proc_in, worker, thread_exc>>

treevars == <<cli_def, cli_list>>

\* the most processes left behind at a time
MaxStray == 1

\* string.ascii_letters + string.digits + "_", and the "|" _Cmd.__init__ adds
IdentChars ==
    {"a", "b", "c", "d", "e", "f", "g", "h", "i", "j", "k", "l", "m", "n", "o", "p",
     "q", "r", "s", "t", "u", "v", "w", "x", "y", "z",
     "A", "B", "C", "D", "E", "F", "G", "H", "I", "J", "K", "L", "M", "N", "O", "P",
     "Q", "R", "S", "T", "U", "V", "W", "X", "Y", "Z",
     "0", "1", "2", "3", "4", "5", "6", "7", "8", "9", "_", "|"}

\* the length of the leading run of identchars
RECURSIVE IdentRun(_)
IdentRun(s) == IF s # <<>> /\ Head(s) \in IdentChars THEN 1 + IdentRun(Tail(s)) ELSE 0

\* cmd.Cmd.parseline (the standard library's), as onecmd uses it: <<cmd, arg>>
Parseline(line0) ==
    LET stripped == Strip(line0)
    IN  IF stripped = <<>> THEN <<None, None>>
        ELSE IF stripped[1] = "!" THEN <<None, None>>
        ELSE LET l == IF stripped[1] = "?"
                      THEN S_help \o <<SP>> \o Tail(stripped) ELSE stripped
                 i == IdentRun(l)
             IN  <<Upto(l, i), Strip(From(l, i))>>

\* the do_<cmd> methods of _Cmd
DoMethods == {S_help, S_EOF}

\* the state between two lines, but for the console's screen: nothing of the
\* last line is kept
ClearedLine ==
    /\ line' = <<>> /\ via' = "" /\ node' = <<>> /\ rem' = None
    /\ ctx' = NewContext /\ calls' = <<>> /\ stop' = "None"
    /\ results' = [none |-> TRUE, list |-> <<>>]
    /\ frame' = "top" /\ buf' = <<>> /\ proc' = "none" /\ proc_in' = <<>>
    /\ worker' = "none" /\ thread_exc' = "None"

\* the state between two lines: nothing of the last line is kept
Cleared == ClearedLine /\ out' = <<>>

\* print("^C") of _Cmd.cmdloop
CtrlC == [msg |-> "^C", who |-> "", text |-> <<>>]

\* print(self.intro) of _Cmd.cmdloop, with HueCon.intro
Intro == [msg |-> "Welcome HueCon.   Type help or ? to list commands.", who |-> "", text |-> <<>>]

\* a restart of the loop that prints the banner again
Restarted_Banner == <<CtrlC, Intro>>

\* what _Cmd.cmdloop prints when a KeyboardInterrupt reaches it: ^C, and then
\* super().cmdloop() is entered again with self.intro set to None, so that
\* the standard library's loop prints no banner
Restarted == <<CtrlC>>

Init ==
    /\ cli_def \in Definitions /\ cli_list = None
    /\ pc = "init" /\ eof = FALSE /\ exc = "None"
    /\ line = <<>> /\ via = "" /\ node = <<>> /\ rem = None
    /\ ctx = NewContext /\ out = <<>> /\ calls = <<>> /\ stop = "None"
    /\ results = [none |-> TRUE, list |-> <<>>]
    /\ frame = "top" /\ buf = <<>> /\ proc = "none" /\ proc_in = <<>>
    /\ worker = "none" /\ thread_exc = "None"
    /\ stray = <<>>

\* Interface.__init__: the definition is compiled, _Cmd is built around the
\* tree and cmdloop is entered, which prints the banner and prompts; an Error
\* raised by the compiler leaves __init__ before any of that
Construct ==
    /\ pc = "init"
    /\ LET parsed == ParseCli(cli_def)
       IN  IF IsError(parsed)
           THEN /\ pc' = "crashed" /\ exc' = "Error" /\ cli_list' = cli_list
                /\ out' = out
           ELSE /\ pc' = "prompt" /\ exc' = exc /\ cli_list' = CmdInit(parsed)
                /\ out' = <<Intro>>
    /\ UNCHANGED <<cli_def, eof, line, via, node, rem, ctx, calls, stop, results, frame>>
    /\ UNCHANGED pipevars
    /\ UNCHANGED stray

\* cmd.Cmd.cmdloop: input(self.prompt) returns a line; what is printed from
\* here on belongs to that line
ReadLine ==
    /\ pc = "prompt" /\ ~eof
    /\ \E l \in InputLines : line' = l
    /\ pc' = "onecmd"
    /\ out' = <<>>
    /\ UNCHANGED <<eof, via, node, rem, ctx, calls, stop, exc, results, frame>>
    /\ UNCHANGED pipevars
    /\ UNCHANGED treevars
    /\ UNCHANGED stray

\* cmd.Cmd.cmdloop: input raises EOFError, and the line is "EOF"
ReadEOF ==
    /\ pc = "prompt"
    /\ eof' = TRUE
    /\ line' = S_EOF
    /\ pc' = "onecmd"
    /\ out' = <<>>
    /\ UNCHANGED <<via, node, rem, ctx, calls, stop, exc, results, frame>>
    /\ UNCHANGED pipevars
    /\ UNCHANGED treevars
    /\ UNCHANGED stray

\* _Cmd.onecmd on a blank line: return (None)
OneCmdEmpty ==
    /\ pc = "onecmd"
    /\ Falsy(line) \/ Falsy(Strip(line))
    /\ stop' = "None"
    /\ pc' = "postcmd"
    /\ UNCHANGED <<eof, line, via, node, rem, ctx, out, calls, exc, results, frame>>
    /\ UNCHANGED pipevars
    /\ UNCHANGED treevars
    /\ UNCHANGED stray

\* _Cmd.onecmd, do_<cmd> branch, with _Cmd.do_EOF: print(""); onecmd falls
\* off its end and returns None
DoEOF ==
    /\ pc = "onecmd"
    /\ ~(Falsy(line) \/ Falsy(Strip(line)))
    /\ Parseline(line)[1] = S_EOF
    /\ out' = Append(out, Msg("", "", <<>>))
    /\ stop' = "None"
    /\ pc' = "postcmd"
    /\ UNCHANGED <<eof, line, via, node, rem, ctx, calls, exc, results, frame>>
    /\ UNCHANGED pipevars
    /\ UNCHANGED treevars
    /\ UNCHANGED stray

\* _Cmd.onecmd, do_<cmd> branch, with _Cmd.do_help up to its call of
\* cli_list.execute
DoHelp ==
    /\ pc = "onecmd"
    /\ ~(Falsy(line) \/ Falsy(Strip(line)))
    /\ Parseline(line)[1] = S_help
    /\ LET arg == Parseline(line)[2]
       IN  rem' = IF Falsy(arg) \/ Falsy(Strip(arg)) THEN S_qmark
                  ELSE IF arg = S_help THEN S_help \o <<SP>> \o S_qmark
                  ELSE arg \o <<SP>> \o S_qmark
    /\ ctx' = NewContext
    /\ via' = "help"
    /\ node' = <<>>
    /\ pc' = "exec"
    /\ UNCHANGED <<eof, line, out, calls, stop, exc, results, frame>>
    /\ UNCHANGED pipevars
    /\ UNCHANGED treevars
    /\ UNCHANGED stray

\* _Cmd.onecmd, else branch, up to its call of cli_list.execute
Dispatch ==
    /\ pc = "onecmd"
    /\ ~(Falsy(line) \/ Falsy(Strip(line)))
    /\ ~(Parseline(line)[1] # None /\ Parseline(line)[1] \in DoMethods)
    /\ ctx' = NewContext
    /\ via' = "direct"
    /\ node' = <<>>
    /\ rem' = line
    /\ pc' = "exec"
    /\ UNCHANGED <<eof, line, out, calls, stop, exc, results, frame>>
    /\ UNCHANGED pipevars
    /\ UNCHANGED treevars
    /\ UNCHANGED stray

\* print(...) that goes to the console whatever _run_pipe has redirected
Emit_Console(msgs) == out' = out \o msgs /\ buf' = buf

\* print(...): to _run_pipe's buffer while it captures, else to the console
Emit(msgs) ==
    IF frame = "pipe"
    THEN buf' = buf \o msgs /\ out' = out
    ELSE out' = out \o msgs /\ buf' = buf

\* an onecmd that returns nothing after the tree has run
StopValue_Nothing(c) == "None"

\* return ctx.end of _Cmd.onecmd; do_help's result is dropped by onecmd
StopValue(c) == IF via = "direct" THEN (IF c.end THEN "True" ELSE "False") ELSE "None"

\* the tree's execute has returned: into _run_pipe when it ran the wrapped
\* element, else into onecmd (or do_help), which returns
Returned(c) ==
    /\ ctx' = c
    /\ exc' = exc
    /\ IF frame = "pipe"
       THEN pc' = "pipe_which" /\ frame' = "top" /\ stop' = stop
       ELSE pc' = "postcmd" /\ frame' = frame /\ stop' = StopValue(c)

\* print("Error: {!s}".format(exc))
ErrorLine(m) == [m EXCEPT !.msg = "Error: " \o m.msg]

\* an exception leaves the tree's execute: onecmd's except CommandError
\* catches it on the direct path; nothing else catches anything
Raised(name, c, m) ==
    /\ ctx' = c
    /\ frame' = "top"
    /\ buf' = buf
    /\ IF name = "CommandError" /\ via = "direct"
       THEN /\ pc' = "postcmd"
            /\ out' = Append(out, ErrorLine(m))
            /\ stop' = StopValue(c)
            /\ exc' = exc
       ELSE /\ pc' = "crashed"
            /\ exc' = name
            /\ out' = out
            /\ stop' = stop

\* the effect of an action function of HueCon on the context: do_exit sets end
HandlerRun(function, c) == IF function = "do_exit" THEN [c EXCEPT !.end = TRUE] ELSE c

\* what an action function prints
HandlerOutput(function) == <<Msg("output", function, <<>>)>>

\* _CLIList.execute
ExecList ==
    /\ pc = "exec"
    /\ NodeAt(node).type = "_CLIList"
    /\ LET s == Execute(NodeAt(node), ctx, rem)
       IN  IF s.act = "exec"
           THEN /\ node' = Append(node, s.edge)
                /\ rem' = s.line
                /\ ctx' = s.ctx
                /\ UNCHANGED <<pc, out, stop, exc, frame, buf>>
           ELSE /\ Emit(s.out)
                /\ Returned(s.ctx)
                /\ UNCHANGED <<node, rem>>
    /\ UNCHANGED <<eof, line, via, calls, results, proc, proc_in, worker, thread_exc>>
    /\ UNCHANGED treevars
    /\ UNCHANGED stray

\* _CLIArgument.execute
ExecArgument ==
    /\ pc = "exec"
    /\ NodeAt(node).type = "_CLIArgument"
    /\ LET s == Execute(NodeAt(node), ctx, rem)
       IN  IF s.act = "exec"
           THEN /\ node' = Append(node, s.edge)
                /\ rem' = s.line
                /\ ctx' = s.ctx
                /\ UNCHANGED <<pc, out, stop, exc, frame, buf>>
           ELSE IF s.act = "raise"
           THEN /\ Raised(s.function, s.ctx, s.out[1])
                /\ UNCHANGED <<node, rem>>
           ELSE /\ Emit(s.out)
                /\ Returned(s.ctx)
                /\ UNCHANGED <<node, rem>>
    /\ UNCHANGED <<eof, line, via, calls, results, proc, proc_in, worker, thread_exc>>
    /\ UNCHANGED treevars
    /\ UNCHANGED stray

\* a _CLIAction.execute that calls its action function twice
ExecAction_Twice ==
    /\ pc = "exec"
    /\ NodeAt(node).type = "_CLIAction"
    /\ LET s == Execute(NodeAt(node), ctx, rem)
       IN  IF s.act = "return"
           THEN /\ Emit(s.out)
                /\ Returned(s.ctx)
                /\ calls' = calls
           ELSE IF s.function = "None"
           THEN /\ Raised("TypeError", s.ctx, Msg("", "", <<>>))
                /\ calls' = calls
           ELSE /\ calls' = calls \o <<s.function, s.function>>
                /\ Emit(HandlerOutput(s.function) \o HandlerOutput(s.function))
                /\ Returned(HandlerRun(s.function, s.ctx))
    /\ UNCHANGED <<eof, line, via, node, rem, results, proc, proc_in, worker, thread_exc>>
    /\ UNCHANGED treevars
    /\ UNCHANGED stray

\* _CLIAction.execute, with the action function it calls
ExecAction ==
    /\ pc = "exec"
    /\ NodeAt(node).type = "_CLIAction"
    /\ LET s == Execute(NodeAt(node), ctx, rem)
       IN  IF s.act = "return"
           THEN /\ Emit(s.out)
                /\ Returned(s.ctx)
                /\ calls' = calls
           ELSE IF s.function = "None"
           THEN \* None(ctx): 'NoneType' object is not callable
                /\ Raised("TypeError", s.ctx, Msg("", "", <<>>))
                /\ calls' = calls
           ELSE /\ calls' = Append(calls, s.function)
                /\ Emit(HandlerOutput(s.function))
                /\ Returned(HandlerRun(s.function, s.ctx))
    /\ UNCHANGED <<eof, line, via, node, rem, results, proc, proc_in, worker, thread_exc>>
    /\ UNCHANGED treevars
    /\ UNCHANGED stray

\* _run_pipe with Popen ahead of the capture of the wrapped element
ExecPipeAction_SpawnEarly ==
    /\ pc = "exec"
    /\ NodeAt(node).type = "_PipeAction"
    /\ LET s == Execute(NodeAt(node), ctx, rem)
       IN  IF s.act = "return"
           THEN /\ Emit(s.out)
                /\ Returned(s.ctx)
                /\ UNCHANGED <<node, rem, proc>>
           ELSE /\ frame' = "pipe"
                /\ buf' = <<>>
                /\ proc' = "running"
                /\ node' = Append(node, E_cli_action)
                /\ rem' = None
                /\ ctx' = s.ctx
                /\ UNCHANGED <<pc, out, stop, exc>>
    /\ UNCHANGED <<eof, line, via, calls, results, proc_in, worker, thread_exc>>
    /\ UNCHANGED treevars
    /\ UNCHANGED stray

\* _PipeAction's execute (inherited), and _run_pipe up to its call of the
\* wrapped element's execute under redirect_stdout(buf)
ExecPipeAction ==
    /\ pc = "exec"
    /\ NodeAt(node).type = "_PipeAction"
    /\ LET s == Execute(NodeAt(node), ctx, rem)
       IN  IF s.act = "return"
           THEN /\ Emit(s.out)
                /\ Returned(s.ctx)
                /\ UNCHANGED <<node, rem>>
           ELSE /\ frame' = "pipe"
                /\ buf' = <<>>
                /\ node' = Append(node, E_cli_action)
                /\ rem' = None
                /\ ctx' = s.ctx
                /\ UNCHANGED <<pc, out, stop, exc>>
    /\ UNCHANGED <<eof, line, via, calls, results, proc, proc_in, worker, thread_exc>>
    /\ UNCHANGED treevars
    /\ UNCHANGED stray

\* cmd.split()[0]
FirstWord(cmd) ==
    LET c == LStrip(cmd)
    IN  IF Contains(c, <<SP>>) THEN Upto(c, IndexOf(c, <<SP>>)) ELSE c

\* _run_pipe with Popen ahead of the shutil.which check
PipeWhich_SpawnFirst ==
    /\ pc = "pipe_which"
    /\ proc' = "running"
    /\ LET cmd == Get(ctx.args, "shell-cmd").str
       IN  IF FirstWord(cmd) \notin OnPath
           THEN Raised("CommandError", ctx,
                       Msg("Shell command not found", "", FirstWord(cmd)))
           ELSE /\ pc' = "pipe_spawned"
                /\ UNCHANGED <<ctx, out, stop, exc, frame, buf>>
    /\ UNCHANGED <<eof, line, via, node, rem, calls, results, proc_in, worker, thread_exc>>
    /\ UNCHANGED treevars
    /\ UNCHANGED stray

\* _run_pipe: the shutil.which check, then Popen
PipeWhich ==
    /\ pc = "pipe_which"
    /\ LET cmd == Get(ctx.args, "shell-cmd").str
       IN  IF FirstWord(cmd) \notin OnPath
           THEN /\ Raised("CommandError", ctx,
                          Msg("Shell command not found", "", FirstWord(cmd)))
                /\ UNCHANGED proc
           ELSE /\ proc' = "running"
                /\ pc' = "pipe_spawned"
                /\ UNCHANGED <<ctx, out, stop, exc, frame, buf>>
    /\ UNCHANGED <<eof, line, via, node, rem, calls, results, proc_in, worker, thread_exc>>
    /\ UNCHANGED treevars
    /\ UNCHANGED stray

\* _run_pipe: thread_exc = None, thr = Thread(target=do_pipe), thr.start(),
\* done = False: the worker runs and the foreground is at its while loop
PipeStart ==
    /\ pc = "pipe_spawned"
    /\ thread_exc' = "None"
    /\ worker' = "running"
    /\ pc' = "pipe_loop"
    /\ UNCHANGED <<eof, line, via, node, rem, ctx, out, calls, stop, exc, results,
                   frame, buf, proc, proc_in>>
    /\ UNCHANGED treevars
    /\ UNCHANGED stray

\* _run_pipe: while not done: try: the foreground enters thr.join()
PipeTry ==
    /\ pc = "pipe_loop"
    /\ pc' = "pipe_join"
    /\ UNCHANGED <<eof, line, via, node, rem, ctx, out, calls, stop, exc, results, frame>>
    /\ UNCHANGED pipevars
    /\ UNCHANGED treevars
    /\ UNCHANGED stray

\* do_pipe that hands the buffer over twice
PipeWorkerOk_Twice ==
    /\ worker = "running"
    /\ proc_in' = proc_in \o buf \o buf
    /\ proc' = "exited"
    /\ worker' = "done"
    /\ UNCHANGED <<pc, eof, line, via, node, rem, ctx, out, calls, stop, exc, results,
                   frame, buf, thread_exc>>
    /\ UNCHANGED treevars
    /\ UNCHANGED stray

\* do_pipe: proc.communicate(input=...) and proc.wait() succeed
PipeWorkerOk ==
    /\ worker = "running"
    /\ proc_in' = proc_in \o buf
    /\ proc' = "exited"
    /\ worker' = "done"
    /\ UNCHANGED <<pc, eof, line, via, node, rem, ctx, out, calls, stop, exc, results,
                   frame, buf, thread_exc>>
    /\ UNCHANGED treevars
    /\ UNCHANGED stray

\* do_pipe that ends on BrokenPipeError and keeps nothing
PipeWorkerBroken_Silent ==
    /\ worker = "running"
    /\ proc' = "exited"
    /\ worker' = "done"
    /\ UNCHANGED <<pc, eof, line, via, node, rem, ctx, out, calls, stop, exc, results,
                   frame, buf, proc_in, thread_exc>>
    /\ UNCHANGED treevars
    /\ UNCHANGED stray

\* do_pipe: BrokenPipeError, kept in thread_exc
PipeWorkerBroken ==
    /\ worker = "running"
    /\ thread_exc' = "BrokenPipeError"
    /\ proc' = "exited"
    /\ worker' = "done"
    /\ UNCHANGED <<pc, eof, line, via, node, rem, ctx, out, calls, stop, exc, results,
                   frame, buf, proc_in>>
    /\ UNCHANGED treevars
    /\ UNCHANGED stray

\* do_pipe: buf.getvalue().encode('ASCII') raises UnicodeEncodeError, the
\* captured text holding a character outside ASCII (a name kept on the bridge);
\* except BrokenPipeError does not catch it, so the thread ends with the slot
\* as it was and with communicate never called: the process has received
\* nothing and still runs
PipeWorkerEncodeError ==
    /\ worker = "running"
    /\ buf # <<>>
    /\ worker' = "done"
    /\ UNCHANGED <<pc, eof, line, via, node, rem, ctx, out, calls, stop, exc, results,
                   frame, buf, proc, proc_in, thread_exc>>
    /\ UNCHANGED treevars
    /\ UNCHANGED stray

\* a join that returns whether or not the worker has ended
PipeJoin_NoWait ==
    /\ pc = "pipe_join"
    /\ pc' = "pipe_check"
    /\ UNCHANGED <<eof, line, via, node, rem, ctx, out, calls, stop, exc, results, frame>>
    /\ UNCHANGED pipevars
    /\ UNCHANGED treevars
    /\ UNCHANGED stray

\* _run_pipe: thr.join() returns and done = True ends the loop
PipeJoin ==
    /\ pc = "pipe_join"
    /\ worker = "done"
    /\ pc' = "pipe_check"
    /\ UNCHANGED <<eof, line, via, node, rem, ctx, out, calls, stop, exc, results, frame>>
    /\ UNCHANGED pipevars
    /\ UNCHANGED treevars
    /\ UNCHANGED stray

\* _run_pipe: if thread_exc is not None: raise CommandError(str(thread_exc));
\* else _run_pipe returns
PipeRaise ==
    /\ pc = "pipe_check"
    /\ IF thread_exc # "None"
       THEN Raised("CommandError", ctx, Msg(thread_exc, "", <<>>))
       ELSE Returned(ctx) /\ UNCHANGED <<out, buf>>
    /\ UNCHANGED <<eof, line, via, node, rem, calls, results, proc, proc_in, worker,
                   thread_exc>>
    /\ UNCHANGED treevars
    /\ UNCHANGED stray

\* KeyboardInterrupt in the foreground inside the try of the join loop:
\* except KeyboardInterrupt: pass, and the loop goes round
InterruptJoin ==
    /\ pc = "pipe_join"
    /\ pc' = "pipe_loop"
    /\ UNCHANGED <<eof, line, via, node, rem, ctx, out, calls, stop, exc, results, frame>>
    /\ UNCHANGED pipevars
    /\ UNCHANGED treevars
    /\ UNCHANGED stray

\* KeyboardInterrupt in the foreground in _run_pipe after Popen and outside
\* the try: nothing in _run_pipe or onecmd catches it, cmdloop prints ^C and
\* starts the loop again; a process _run_pipe has spawned, and its worker if
\* started, are left as they are
InterruptEscape ==
    /\ pc \in {"pipe_spawned", "pipe_loop", "pipe_check"}
    /\ IF proc = "running"
       THEN /\ Len(stray) < MaxStray
            /\ stray' = Append(stray, IF worker = "running" THEN "fed" ELSE "unfed")
       ELSE stray' = stray
    /\ pc' = "prompt"
    /\ ClearedLine
    /\ out' = Restarted
    /\ UNCHANGED <<eof, exc>>
    /\ UNCHANGED treevars

\* KeyboardInterrupt in the foreground while the wrapped element runs under
\* redirect_stdout(buf): the with statement puts sys.stdout back as the
\* exception leaves it, nothing in _run_pipe or onecmd catches it, and cmdloop
\* prints ^C on the console and starts the loop again
InterruptCapture ==
    /\ pc = "exec" /\ frame = "pipe"
    /\ pc' = "prompt"
    /\ ClearedLine
    /\ out' = Restarted
    /\ UNCHANGED <<eof, exc>>
    /\ UNCHANGED treevars
    /\ UNCHANGED stray

\* an interrupt at the prompt that ends the loop
InterruptPrompt_Ends ==
    /\ pc = "prompt"
    /\ pc' = "done"
    /\ out' = <<CtrlC>>
    /\ UNCHANGED <<eof, line, via, node, rem, ctx, calls, stop, exc, results, frame>>
    /\ UNCHANGED pipevars
    /\ UNCHANGED treevars
    /\ UNCHANGED stray

\* KeyboardInterrupt while input() waits for a line: it leaves cmd.Cmd.cmdloop,
\* _Cmd.cmdloop prints ^C and calls cmd.Cmd.cmdloop again, which prompts
InterruptPrompt ==
    /\ pc = "prompt"
    /\ pc' = "prompt"
    /\ out' = Restarted
    /\ UNCHANGED <<eof, line, via, node, rem, ctx, calls, stop, exc, results, frame>>
    /\ UNCHANGED pipevars
    /\ UNCHANGED treevars
    /\ UNCHANGED stray

\* a process that was left behind ends: its worker has fed it and waited for
\* it, or, with no worker, its input is closed when the Popen object goes
StrayEnds ==
    /\ stray # <<>>
    /\ stray' = Tail(stray)
    /\ UNCHANGED <<pc, eof, line, via, node, rem, ctx, out, calls, stop, exc, results, frame>>
    /\ UNCHANGED pipevars
    /\ UNCHANGED treevars

\* cmd.Cmd.cmdloop: stop is true, the loop ends
LoopEnd ==
    /\ pc = "postcmd"
    /\ stop = "True"
    /\ pc' = "done"
    /\ UNCHANGED <<eof, line, via, node, rem, ctx, out, calls, stop, exc, results, frame>>
    /\ UNCHANGED pipevars
    /\ UNCHANGED treevars
    /\ UNCHANGED stray

\* cmd.Cmd.cmdloop: stop is not true, the loop prompts again
LoopAgain ==
    /\ pc = "postcmd"
    /\ stop # "True"
    /\ pc' = "prompt"
    /\ Cleared
    /\ UNCHANGED <<eof, exc>>
    /\ UNCHANGED treevars
    /\ UNCHANGED stray

\* cmd.Cmd.complete (the standard library's) picks the completer by the line
\* typed so far: complete_help when its command word is help and the word
\* being completed is not the first, else completenames or completedefault
UsesCompleteHelp(l) == Contains(l, <<SP>>) /\ Parseline(l)[1] = S_help

\* _Cmd.completenames and _Cmd.completedefault, up to cli_list.complete
CompleteDefault ==
    /\ pc = "prompt" /\ ~eof
    /\ \E l \in InputLines :
          /\ ~UsesCompleteHelp(LStrip(l))
          /\ line' = LStrip(l)
    /\ rem' = line'
    /\ ctx' = NewContext
    /\ node' = <<>>
    /\ pc' = "complete"
    /\ out' = <<>>
    /\ UNCHANGED <<eof, via, calls, stop, exc, results, frame>>
    /\ UNCHANGED pipevars
    /\ UNCHANGED treevars
    /\ UNCHANGED stray

\* _Cmd.complete_help: arg = line[5:], then completedefault on arg
CompleteHelp ==
    /\ pc = "prompt" /\ ~eof
    /\ \E l \in InputLines :
          /\ UsesCompleteHelp(LStrip(l))
          /\ line' = From(LStrip(l), 5)
    /\ rem' = line'
    /\ ctx' = NewContext
    /\ node' = <<>>
    /\ pc' = "complete"
    /\ out' = <<>>
    /\ UNCHANGED <<eof, via, calls, stop, exc, results, frame>>
    /\ UNCHANGED pipevars
    /\ UNCHANGED treevars
    /\ UNCHANGED stray

\* a complete that, at an action, calls the action's function as execute does
CompleteNode_Calls(type) ==
    /\ pc = "complete"
    /\ NodeAt(node).type = type
    /\ LET c == Complete(NodeAt(node), ctx, rem)
       IN  IF c.act = "complete"
           THEN /\ node' = Append(node, c.edge)
                /\ rem' = c.line
                /\ ctx' = c.ctx
                /\ UNCHANGED <<pc, results>>
           ELSE /\ results' = [none |-> c.none, list |-> c.results]
                /\ ctx' = c.ctx
                /\ pc' = "completed"
                /\ UNCHANGED <<node, rem>>
    /\ calls' = IF type = "_CLIAction" THEN Append(calls, NodeAt(node).function) ELSE calls
    /\ UNCHANGED <<eof, line, via, out, stop, exc, frame>>
    /\ UNCHANGED pipevars
    /\ UNCHANGED treevars
    /\ UNCHANGED stray

\* one node's complete: into the child, or back to completedefault with results
CompleteNode(type) ==
    /\ pc = "complete"
    /\ NodeAt(node).type = type
    /\ LET c == Complete(NodeAt(node), ctx, rem)
       IN  IF c.act = "complete"
           THEN /\ node' = Append(node, c.edge)
                /\ rem' = c.line
                /\ ctx' = c.ctx
                /\ UNCHANGED <<pc, results>>
           ELSE /\ results' = [none |-> c.none, list |-> c.results]
                /\ ctx' = c.ctx
                /\ pc' = "completed"
                /\ UNCHANGED <<node, rem>>
    /\ UNCHANGED <<eof, line, via, out, calls, stop, exc, frame>>
    /\ UNCHANGED pipevars
    /\ UNCHANGED treevars
    /\ UNCHANGED stray

\* _CLIList.complete
CompleteList == CompleteNode("_CLIList")

\* _CLIArgument.complete
CompleteArgument == CompleteNode("_CLIArgument")

\* _CLIBase.complete, for a _CLIAction or a _PipeAction
CompleteAction ==
    CompleteNode("_CLIAction") \/ CompleteNode("_PipeAction")

\* readline has the completions; the user is back at the prompt
CompleteReturn ==
    /\ pc = "completed"
    /\ pc' = "prompt"
    /\ Cleared
    /\ UNCHANGED <<eof, exc>>
    /\ UNCHANGED treevars
    /\ UNCHANGED stray

Next ==
    \/ Construct
    \/ ReadLine
    \/ ReadEOF
    \/ OneCmdEmpty
    \/ DoEOF
    \/ DoHelp
    \/ Dispatch
    \/ ExecList
    \/ ExecArgument
    \/ ExecAction
    \/ ExecPipeAction
    \/ PipeWhich
    \/ PipeStart
    \/ PipeTry
    \/ PipeWorkerOk
    \/ PipeWorkerBroken
    \/ PipeJoin
    \/ PipeRaise
    \/ LoopEnd
    \/ LoopAgain
    \/ CompleteDefault
    \/ CompleteHelp
    \/ CompleteList
    \/ CompleteArgument
    \/ CompleteAction
    \/ CompleteReturn

Spec == Init /\ [][Next]_vars

\* The console under interrupts: a console built from DEF_pipe, with
\* KeyboardInterrupt raised in the foreground while _run_pipe runs or the
\* prompt waits
InitInterrupts == Init /\ cli_def = DEF_pipe

NextInterrupts ==
    \/ Next
    \/ InterruptJoin
    \/ InterruptEscape
    \/ InterruptCapture
    \/ InterruptPrompt
    \/ StrayEnds

SpecInterrupts == InitInterrupts /\ [][NextInterrupts]_vars

\* The console on a bridge whose names are not all ASCII: a console built
\* from DEF_pipe, with an action function that prints such a name
InitEncode == Init /\ cli_def = DEF_pipe

NextEncode ==
    \/ Next
    \/ PipeWorkerEncodeError

SpecEncode == InitEncode /\ [][NextEncode]_vars

\* ------------------------------------------------------------------------
\* Properties of the dispatcher
\* ------------------------------------------------------------------------

\* a _CLIList's execute is about to run on a line
AtList == pc = "exec" /\ NodeAt(node).type = "_CLIList" /\ rem # None

\* the first token of the remaining line at a list
Token == ListSplitline(rem)[1]

\* the keywords of the list at node that start with text t
KeywordsWithPrefix(t) ==
    {k \in Keys(NodeAt(node).elems) \ {None} : StartsWith(k, t)}

\* the token is no keyword and a prefix of exactly one keyword
UniquePrefix ==
    /\ AtList
    /\ Token # <<>>
    /\ Token \notin Keys(NodeAt(node).elems)
    /\ Cardinality(KeywordsWithPrefix(Token)) = 1

\* the remaining line with its first token typed in full
FullLine ==
    (CHOOSE k \in KeywordsWithPrefix(Token) : TRUE) \o From(rem, Len(Token))

\* C1: at every list, a non-empty token that is no keyword and a prefix of
\* exactly one keyword is dispatched as that keyword typed in full would be:
\* the same child runs next, with the same remainder, and the full keyword is
\* appended to the keyword trail.
C1_UniquePrefixAsFull ==
    [][UniquePrefix =>
         LET k == CHOOSE k \in KeywordsWithPrefix(Token) : TRUE
             full == ListExecute(NodeAt(node), ctx, FullLine)
         IN  /\ full.act = "exec" /\ full.edge = k
             /\ pc' = "exec"
             /\ node' = Append(node, full.edge)
             /\ rem' = full.line
             /\ rem' = ListSplitline(rem)[2]
             /\ ctx' = full.ctx
             /\ ctx'.kws = Append(ctx.kws, k)]_vars

\* "s l" has been dispatched through show and lights
C1_Witness ==
    /\ pc = "exec"
    /\ line = <<"s", " ", "l">>
    /\ node = <<S_show, S_lights>>
    /\ ctx.kws = <<S_show, S_lights>>

\* C2: at every list, a token equal to a keyword runs exactly that keyword's
\* child with the rest of the line, and the trail grows by that keyword, once.
C2_ExactKeyword ==
    [][(AtList /\ Token # <<>> /\ Token \in Keys(NodeAt(node).elems)) =>
         /\ pc' = "exec"
         /\ node' = Append(node, Token)
         /\ rem' = ListSplitline(rem)[2]
         /\ ctx'.kws = Append(ctx.kws, Token)
         /\ ctx'.args = ctx.args
         /\ calls' = calls]_vars

\* "show lights" has been dispatched through show
C2_Witness ==
    /\ pc = "exec"
    /\ line = S_show \o <<SP>> \o S_lights
    /\ node = <<S_show>>
    /\ rem = S_lights
    /\ ctx.kws = <<S_show>>

\* the token is no keyword and a prefix of two keywords or more
AmbiguousPrefix ==
    /\ AtList
    /\ Token # <<>>
    /\ Token \notin Keys(NodeAt(node).elems)
    /\ Cardinality(KeywordsWithPrefix(Token)) >= 2

\* C3: at every list, a token that is no keyword and a prefix of two or more
\* keywords is reported as ambiguous; no child runs, and the keyword trail
\* and the bound arguments stay as they were.
C3_Ambiguous ==
    [][AmbiguousPrefix =>
         /\ out' = Append(out, Msg("!! Ambiguous keyword", "", Token))
         /\ pc' = "postcmd"
         /\ node' = node
         /\ ctx' = ctx
         /\ calls' = calls]_vars

\* "show s" has been reported as ambiguous
C3_Witness ==
    /\ pc = "postcmd"
    /\ line = S_show \o <<SP, "s">>
    /\ out = <<Msg("!! Ambiguous keyword", "", <<"s">>)>>
    /\ ctx.kws = <<S_show>>

\* ------------------------------------------------------------------------
\* Properties of the read loop and of completion
\* ------------------------------------------------------------------------

\* C4: a recoverable user-visible error (unknown, ambiguous or missing
\* keyword, missing or invalid argument, unexpected input, shell command not
\* found, external process failure) never leaves the read loop as an uncaught
\* exception, on the direct path or through help: the command errors of the
\* tree are all caught and the loop goes on.
C4_RecoverableErrorsReprompt == ~(pc = "crashed" /\ exc = "CommandError")

\* the position in the line of the word being completed: after its last space
WordStart(l) == IF Contains(l, <<SP>>) THEN RIndexOf(l, <<SP>>) + 1 ELSE 0

\* the line with the word being completed replaced by a completion
Splice(l, completion) == Upto(l, WordStart(l)) \o completion

\* the node rejects the line with an unknown-keyword or an invalid-argument
\* error of its own
Rejected(s) ==
    \/ s.act = "return" /\ s.out # <<>> /\ s.out[1].msg = "!! Unknown keyword"
    \/ s.act = "raise" /\ s.out[1].msg = "Invalid argument"

\* C5: every completion a list or an argument returns for a partial line,
\* spliced into that line in place of the word being completed and given to
\* the same node's execute, is not rejected by that node as an unknown
\* keyword or an invalid argument.
C5_CompletionsAccepted ==
    (pc = "completed" /\ ~results.none) =>
        \A i \in 1..Len(results.list) :
            ~Rejected(Execute(NodeAt(node), ctx, Splice(rem, results.list[i])))

\* the node that execute reaches with the leading keywords of a line: the
\* first node given no remaining line, every node before it being a list that
\* resolved its token
RECURSIVE ExecReach(_, _, _)
ExecReach(path, c, l) ==
    IF l = None THEN [ok |-> TRUE, path |-> path]
    ELSE IF NodeAt(path).type # "_CLIList" THEN [ok |-> FALSE, path |-> path]
    ELSE LET s == Execute(NodeAt(path), c, l)
         IN  IF s.act = "exec" /\ ListSplitline(l)[1] # <<>>
             THEN ExecReach(Append(path, s.edge), s.ctx, s.line)
             ELSE [ok |-> FALSE, path |-> path]

\* the words of the completed line before the word being completed, or None
Leading(l) == IF Contains(l, <<SP>>) THEN Upto(l, RIndexOf(l, <<SP>>)) ELSE None

\* C6: when execute resolves every leading keyword of a line at its list, by
\* exact match or by unique prefix, complete on those keywords followed by a
\* partial word ends at the node execute reaches, is given the partial word
\* there, and returns that node's completions for it.
C6_LockStep ==
    (pc = "completed" /\ ExecReach(<<>>, NewContext, Leading(line)).ok) =>
        LET reach == ExecReach(<<>>, NewContext, Leading(line)).path
            partial == From(line, WordStart(line))
            own == Complete(NodeAt(reach), ctx, partial)
        IN  /\ node = reach
            /\ rem = partial
            /\ results = [none |-> own.none, list |-> own.results]

\* "show l " has been completed at the lights list, for an empty partial word
C6_Witness ==
    /\ pc = "completed"
    /\ line = S_show \o <<SP, "l", SP>>
    /\ node = <<S_show, S_lights>>
    /\ rem = <<>>
    /\ Len(results.list) = 5

\* C7: a node given exactly "?" prints its help and returns: the keyword
\* trail and the bound arguments stay as they were, no child runs and no
\* action function is invoked.
C7_HelpMark ==
    [][(pc = "exec" /\ rem = S_qmark) =>
         /\ Len(out') = Len(out) + 1
         /\ SubSeq(out', 1, Len(out)) = out
         /\ out'[Len(out')].msg = "help"
         /\ pc' = "postcmd"
         /\ ctx' = ctx
         /\ node' = node
         /\ calls' = calls
         /\ frame' = "top" /\ proc' = "none"]_vars

\* "light id ?" has printed the help of the argument
C7_Witness ==
    /\ pc = "postcmd"
    /\ line = S_light \o <<SP>> \o S_id \o <<SP>> \o S_qmark
    /\ node = <<S_light, S_id>>
    /\ out = <<Msg("help", "_CLIArgument", NodeAt(<<S_light, S_id>>).elem.helpstr)>>
    /\ ctx.args = <<>> /\ calls = <<>>

\* an _CLIArgument's execute is about to split and validate a token
AtArgument ==
    /\ pc = "exec"
    /\ NodeAt(node).type = "_CLIArgument"
    /\ ~Falsy(rem)
    /\ Strip(rem) # S_qmark

\* '"name"' without its quotes
Unquoted(t) ==
    IF Len(t) > 1 /\ t[1] = QT /\ t[Len(t)] = QT THEN SubSeq(t, 2, Len(t) - 1) ELSE t

\* the lights a token names under a contract
Named(def, t) ==
    IF def.cls = "ObjectIDArg"
    THEN {i \in 1..Len(Lights) : Lights[i].id = t}
    ELSE {i \in 1..Len(Lights) : Lights[i].name = Unquoted(t)}

\* the token resolves against the contract's live values
Valid(def, t) == def.cls = "_PipeArgDef" \/ Named(def, t) # {}

\* C8: in an argument's execute, a token that fails validation raises a
\* command failure (invalid argument), nothing is bound and the child does
\* not run; a token that validates is bound under the contract's binding
\* name, to the object it names, and the child runs next with the remainder.
C8_ArgumentValidation ==
    [][AtArgument =>
         LET def == NodeAt(node).def
             t == Splitline(def, rem)[1]
         IN  IF ~Valid(def, t)
             THEN /\ \/ /\ via = "direct" /\ pc' = "postcmd"
                        /\ Len(out') = Len(out) + 1
                        /\ out'[Len(out')].msg = "Error: Invalid argument"
                        /\ out'[Len(out')].who = def.name
                     \/ /\ via = "help" /\ pc' = "crashed" /\ exc' = "CommandError"
                  /\ ctx' = ctx
                  /\ node' = node
                  /\ calls' = calls
             ELSE /\ pc' = "exec"
                  /\ node' = Append(node, E_elem)
                  /\ rem' = Splitline(def, rem)[2]
                  /\ HasKey(ctx'.args, def.ctx_name)
                  /\ IF def.cls = "_PipeArgDef"
                     THEN Get(ctx'.args, def.ctx_name) = [str |-> t]
                     ELSE Get(ctx'.args, def.ctx_name) \in {Lights[i] : i \in Named(def, t)}
                  /\ ctx'.kws = ctx.kws
                  /\ calls' = calls]_vars

\* "light id x" has been refused as an invalid light-id, with nothing bound
C8_Witness ==
    /\ pc = "postcmd"
    /\ line = S_light \o <<SP>> \o S_id \o <<SP, "x">>
    /\ node = <<S_light, S_id>>
    /\ out = <<Msg("Error: Invalid argument", "light-id", <<"x">>)>>
    /\ ctx.args = <<>>

\* an action's execute is about to run
AtAction == pc = "exec" /\ NodeAt(node).type \in {"_CLIAction", "_PipeAction"}

\* the step invokes an action function: a handler, _run_pipe, or the absent
\* function of the help keyword
Invokes ==
    \/ Len(calls') = Len(calls) + 1
    \/ frame = "top" /\ frame' = "pipe"
    \/ exc = "None" /\ exc' = "TypeError"

\* the step prints an unexpected-input error for the remaining line
ReportsUnexpected == out' = Append(out, Msg("!! Unexpected input", "", rem))

\* C9 as stated: an action given a non-empty remaining line other than "?"
\* reports unexpected input and does not invoke its function; the function is
\* invoked only when the remaining line is empty or absent.
C9_Original ==
    [][/\ (AtAction /\ ~Falsy(rem) /\ rem # S_qmark) => (ReportsUnexpected /\ ~Invokes)
       /\ Invokes => (AtAction /\ Falsy(rem))]_vars

\* C9, amended: an action given a non-empty remaining line that is not "?"
\* once the blanks around it are stripped reports unexpected input and does
\* not invoke its function; the function is invoked only when the remaining
\* line is empty or absent.
C9_UnexpectedInput ==
    [][/\ (AtAction /\ ~Falsy(rem) /\ Strip(rem) # S_qmark) => (ReportsUnexpected /\ ~Invokes)
       /\ Invokes => (AtAction /\ Falsy(rem))]_vars

\* "exit x" has been refused as unexpected input, with no function invoked
C9_Witness ==
    /\ pc = "postcmd"
    /\ line = S_exit \o <<SP, "x">>
    /\ node = <<S_exit>>
    /\ out = <<Msg("!! Unexpected input", "", <<"x">>)>>
    /\ calls = <<>>
    /\ ~ctx.end

\* C10: at end-of-input the read loop prints a blank line and ends: it does
\* not prompt again.
C10_EOFTerminates == ~(eof /\ pc = "prompt")

\* C11: when the action function run for a line has set ctx.end, the loop
\* ends after that line and reads no other; the loop ends only so: a line
\* whose function leaves the flag alone, or that calls no function, is
\* followed by the prompt.  The flag is set only by a function that is called.
C11_TerminationFlag ==
    [][/\ (pc = "postcmd" /\ ctx.end) => pc' = "done"
       /\ (pc = "postcmd" /\ ~ctx.end) => pc' = "prompt"
       /\ (pc' = "done" /\ pc # "done") =>
              (pc = "postcmd" /\ ctx.end /\ calls # <<>> /\ calls[Len(calls)] = "do_exit")
       /\ (ctx'.end /\ ~ctx.end) => (AtAction /\ calls' = Append(calls, "do_exit"))
       /\ pc = "done" => pc' = "done"]_vars

\* the loop has ended after the line "exit", whose function set the flag
C11_Witness ==
    /\ pc = "done"
    /\ line = S_exit
    /\ calls = <<"do_exit">>
    /\ ctx.end
    /\ out = <<Msg("output", "do_exit", <<>>)>>

\* the argument type a key "<type>:help" refers to
TypeOf(key) == Split1(key, COLON)[1]

\* the definition holds a key without a help string, a single "<type>" key
\* whose type the registry lacks, an action name the console lacks, or a
\* value that is neither a dict nor a str
RECURSIVE Defective(_)
Defective(contents) ==
    IF contents.t = "dict"
    THEN \E i \in 1..Len(contents.items) :
             LET key == contents.items[i][1]
             IN  \/ ~Contains(key, <<COLON>>)
                 \/ /\ Len(contents.items) = 1
                    /\ StartsWith(key, <<"<">>)
                    /\ ~HasKey(ArgDefs, TypeOf(key))
                 \/ Defective(contents.items[i][2])
    ELSE IF contents.t = "str"
    THEN contents.s \notin Handlers
    ELSE TRUE

\* C12: a definition with a key that has no help string, an argument type the
\* registry lacks, an action name the console lacks or a value of another
\* shape makes Interface.__init__ raise Error before the loop reads a line
\* (and a definition with none of these starts the loop); Error is raised in
\* no other step: never while a line is dispatched or completed.
C12_ConfigErrorAtConstruction ==
    [][/\ (pc = "init" /\ Defective(cli_def)) =>
              (pc' = "crashed" /\ exc' = "Error" /\ cli_list' = None /\ line' = <<>>)
       /\ (pc = "init" /\ ~Defective(cli_def)) => (pc' = "prompt" /\ exc' = "None")
       /\ (exc' = "Error" /\ exc # "Error") => pc = "init"
       /\ pc' = "init" => pc = "init"]_vars

\* the console given DEF_noaction has ended in Error with no tree built
C12_Witness ==
    /\ pc = "crashed"
    /\ exc = "Error"
    /\ cli_def = DEF_noaction
    /\ cli_list = None
    /\ line = <<>>

\* the keyword part of a key "keyword:help"
NameOf(key) == Split1(key, COLON)[1]

\* the key carries the pipe marker: its keyword ends in "|"
Marked(key) == NameOf(key) # S_None /\ EndsWith(NameOf(key), S_pipe)

\* the keyword a key is compiled under
KeywordOf(key) ==
    IF NameOf(key) = S_None THEN None
    ELSE IF Marked(key) THEN Upto(NameOf(key), Len(NameOf(key)) - 1)
    ELSE NameOf(key)

\* the definition is a single "<type>:help" entry
IsArgumentDef(contents) ==
    /\ contents.t = "dict"
    /\ Len(contents.items) = 1
    /\ StartsWith(contents.items[1][1], <<"<">>)

\* in the tree n compiled from contents, a list has a "|" branch only where
\* eligible: at or below a marked key
RECURSIVE PipeOnlyWhereMarked(_, _, _)
PipeOnlyWhereMarked(contents, n, eligible) ==
    IF IsArgumentDef(contents)
    THEN PipeOnlyWhereMarked(contents.items[1][2], n.elem, eligible)
    ELSE IF contents.t = "dict"
    THEN /\ HasKey(n.elems, S_pipe) => eligible
         /\ \A i \in 1..Len(contents.items) :
                LET key == contents.items[i][1]
                IN  PipeOnlyWhereMarked(contents.items[i][2], Get(n.elems, KeywordOf(key)),
                                        eligible \/ Marked(key))
    ELSE n.type = "_CLIList" => eligible

\* the tree has been built
Built == pc # "init" /\ exc # "Error"

\* C13: in the compiled tree a list has a "|" branch only if it lies at or
\* below a key with the pipe marker; a definition with no marker gives a tree
\* with no "|" branch.
C13_PipeOnlyWhereMarked ==
    Built => PipeOnlyWhereMarked(cli_def, cli_list, FALSE)

\* n is the list _parse_cli_elem builds around the action named f: the
\* action under None, and under "|" a shell-cmd argument into a _PipeAction
\* of that same action
PipeWrapped(n, f) ==
    /\ n.type = "_CLIList"
    /\ KeyList(n.elems) = <<None, S_pipe>>
    /\ Get(n.elems, None).type = "_CLIAction"
    /\ Get(n.elems, None).function = f
    /\ Get(n.elems, S_pipe).type = "_CLIArgument"
    /\ Get(n.elems, S_pipe).def = PipeArgDef
    /\ Get(n.elems, S_pipe).elem.type = "_PipeAction"
    /\ Get(n.elems, S_pipe).elem.cli_action = Get(n.elems, None)

\* in the tree n compiled from contents, every action at or below a marked
\* key is wrapped; eligible is handed down unchanged or set, never cleared
RECURSIVE ActionsWrapped(_, _, _)
ActionsWrapped(contents, n, eligible) ==
    IF IsArgumentDef(contents)
    THEN n.type = "_CLIArgument" /\ ActionsWrapped(contents.items[1][2], n.elem, eligible)
    ELSE IF contents.t = "dict"
    THEN /\ n.type = "_CLIList"
         /\ \A i \in 1..Len(contents.items) :
                LET key == contents.items[i][1]
                IN  /\ HasKey(n.elems, KeywordOf(key))
                    /\ ActionsWrapped(contents.items[i][2], Get(n.elems, KeywordOf(key)),
                                      eligible \/ Marked(key))
    ELSE eligible => PipeWrapped(n, contents.s)

\* C14: every action compiled at or below a key with the pipe marker, under
\* any depth of lists and arguments, is wrapped in a list with the absent
\* keyword (the action itself) and a "|" branch (the piped execution of that
\* same action); eligibility once set holds for every descendant.  The tree
\* is as Interface.__init__ built it from then on.
C14_EligibilityPropagates ==
    [][/\ (pc = "init" /\ exc' # "Error") => ActionsWrapped(cli_def, cli_list', FALSE)
       /\ pc # "init" => (cli_list' = cli_list /\ cli_def' = cli_def)]_vars

\* in DEF_deep the action below show|, lights, id and the light-id argument
\* has run through its "|" branch and the process has taken its output
C14_Witness ==
    /\ cli_def = DEF_deep
    /\ pc = "postcmd"
    /\ node = <<S_show, S_lights, S_id, E_elem, S_pipe, E_elem, E_cli_action>>
    /\ calls = <<"show_light">>
    /\ proc = "exited"
    /\ proc_in = <<Msg("output", "show_light", <<>>)>>

\* the shell command of the piped execution under way
ShellCmd == Get(ctx.args, "shell-cmd").str

\* its first word is a program on the search path
Resolves == FirstWord(ShellCmd) \in OnPath

\* the step raises a command failure with this message: printed as an
\* Error: line when the tree was entered from onecmd; from do_help it leaves
\* the loop
RaisesCommandError(m) ==
    \/ /\ via = "direct" /\ pc' = "postcmd"
       /\ out' = Append(out, [m EXCEPT !.msg = "Error: " \o m.msg])
    \/ /\ via = "help" /\ pc' = "crashed" /\ exc' = "CommandError"

\* C15: in a piped execution whose shell command's first word is not on the
\* search path, a "not found" command failure is raised naming that word, no
\* process is spawned and no worker is started; a process is spawned only by
\* the step that has found the word, and a worker only beside a process.
C15_NotFound ==
    [][/\ (pc = "pipe_which" /\ ~Resolves) =>
              /\ RaisesCommandError(Msg("Shell command not found", "", FirstWord(ShellCmd)))
              /\ proc' = "none" /\ worker' = "none" /\ proc_in' = <<>>
       /\ (pc = "postcmd" /\ proc = "none") => (proc' = "none" /\ worker' = "none")
       /\ (proc = "none" /\ proc' # "none") => (pc = "pipe_which" /\ Resolves)
       /\ (worker = "none" /\ worker' # "none") => proc = "running"]_vars

\* "show lights | nosuch" has run show_lights and ended in the not-found
\* error with no process and no worker
C15_Witness ==
    /\ pc = "postcmd"
    /\ line = S_show \o <<SP>> \o S_lights \o <<SP>> \o S_pipe \o <<SP>> \o S_nosuch
    /\ out = <<Msg("Error: Shell command not found", "", S_nosuch)>>
    /\ calls = <<"show_lights">>
    /\ proc = "none"
    /\ worker = "none"

\* the foreground leaves _run_pipe after the join
PipeEnds == pc = "pipe_check" /\ pc' # "pipe_check"

\* the process has received the text the wrapped action wrote while captured,
\* once and nothing else, and none of it went to the console
Delivered ==
    /\ Len(calls) = 1
    /\ buf = HandlerOutput(calls[1])
    /\ proc_in = buf
    /\ proc = "exited"
    /\ out = <<>>

\* the piped execution returns with no error
EndsClean == pc' = "postcmd" /\ out' = out /\ exc' = "None"

Interrupted == InterruptJoin \/ InterruptEscape

\* C17: once the process of a piped execution is spawned, an interrupt in the
\* foreground, wherever it falls, does not make the piped execution return
\* while the worker has not finished, does not end the process and does not
\* send the buffer again: the foreground goes back to waiting for the worker.
C17_InterruptOnlyRewaits ==
    [][(Interrupted /\ worker # "done") =>
           /\ pc' = "pipe_loop"
           /\ UNCHANGED <<proc, proc_in, worker, buf, thread_exc, stray>>]_vars

\* the pipe processes alive, and the workers running
Processes == Len(stray) + (IF proc = "running" THEN 1 ELSE 0)

Workers ==
    Len(SelectSeq(stray, LAMBDA t : t = "fed")) + (IF worker = "running" THEN 1 ELSE 0)

\* C18: at every moment at most one pipe process and at most one worker
\* exist, and a line is dispatched only when no worker of an earlier piped
\* execution is still running, under any interleaving of interrupts.
C18_OnePipeAtATime ==
    /\ Processes <= 1
    /\ Workers <= 1
    /\ pc \in {"onecmd", "exec", "pipe_which", "pipe_spawned"} => Workers = 0

\* the worker ends without having handed the buffer to the process
WorkerFails == worker = "running" /\ worker' = "done" /\ proc_in' # proc_in \o buf

\* C19: a broken pipe met by the worker is kept in the worker's slot, in a
\* step of the worker alone; the foreground raises it as a command failure
\* when it ends its join, which it does only after the worker has finished,
\* and the failure is printed for the user.
C19_BrokenPipeReported ==
    [][/\ WorkerFails => (thread_exc' = "BrokenPipeError" /\ pc' = pc /\ out' = out)
       /\ (PipeEnds /\ thread_exc # "None") =>
              (worker = "done" /\ RaisesCommandError(Msg(thread_exc, "", <<>>)))
       /\ (PipeEnds /\ thread_exc = "None") => proc_in = buf]_vars

\* "show lights | cat" has ended in the broken-pipe error the worker kept
C19_Witness ==
    /\ pc = "postcmd"
    /\ line = S_show \o <<SP>> \o S_lights \o <<SP>> \o S_pipe \o <<SP>> \o S_cat
    /\ worker = "done"
    /\ thread_exc = "BrokenPipeError"
    /\ out = <<Msg("Error: BrokenPipeError", "", <<>>)>>
    /\ proc_in = <<>>

\* C20: the exception slot is written at most once in a piped execution, by
\* the worker in the step that ends it; the foreground reads the slot only
\* after its join on the worker has completed, and the slot does not change
\* once the worker has ended, so no read meets or precedes the write.
C20_ExceptionSlot ==
    [][/\ (thread_exc' # thread_exc /\ pc' # "prompt") =>
              (thread_exc = "None" /\ worker = "running" /\ worker' = "done" /\ pc' = pc)
       /\ pc = "pipe_check" => worker = "done"
       /\ (worker = "done" /\ pc' # "prompt") => thread_exc' = thread_exc]_vars

\* in the console built from DEF_pipe the foreground, at the end of its join,
\* is about to read the slot the worker has written
C20_Witness ==
    /\ cli_def = DEF_pipe
    /\ pc = "pipe_check"
    /\ worker = "done"
    /\ thread_exc = "BrokenPipeError"

\* ------------------------------------------------------------------------
\* Properties of the pipe's phases, of completion and of the contracts
\* ------------------------------------------------------------------------

\* the phases of a piped execution: the wrapped element runs with its output
\* captured; then _run_pipe checks the command, spawns, feeds and joins
Capturing == frame = "pipe"

Streaming == pc \in {"pipe_which", "pipe_spawned", "pipe_loop", "pipe_join", "pipe_check"}

\* the line's piped execution has been entered
PipeBegun == \E i \in 1..Len(node) : node[i] = E_cli_action

\* the line's processing is over
Ended == pc \in {"postcmd", "crashed"}

\* C21: a piped execution goes from idle to capturing, from capturing to
\* streaming, and from streaming to its end, with or without an error, in
\* that order: capture starts at the pipe action with no process; the process
\* is spawned only in streaming, after capture has ended with the wrapped
\* action's output in the buffer and after the command was found; an error
\* ends it only from capturing or streaming; and once ended nothing of it
\* changes before the next prompt.
C21_PipePhases ==
    [][/\ (~Capturing /\ Capturing') =>
              /\ pc = "exec" /\ NodeAt(node).type = "_PipeAction"
              /\ ~Streaming /\ proc = "none" /\ worker = "none"
              /\ buf' = <<>> /\ proc' = "none"
       /\ Capturing =>
              /\ proc' = "none" /\ worker' = "none" /\ out' = out
              /\ \/ Capturing' /\ pc' = "exec"
                 \/ ~Capturing' /\ pc' = "pipe_which"
       /\ (~Streaming /\ Streaming') => (Capturing /\ pc' = "pipe_which" /\ calls' # <<>>)
       /\ Streaming => (Streaming' \/ Ended')
       /\ (proc = "none" /\ proc' # "none") =>
              /\ Streaming /\ ~Capturing /\ Resolves
              /\ calls # <<>> /\ buf = HandlerOutput(calls[1])
       /\ (PipeBegun /\ Ended' /\ ~Ended /\ (out' # out \/ exc' # exc)) =>
              (Capturing \/ Streaming)
       /\ (PipeBegun /\ pc = "postcmd") =>
              /\ pc' \in {"prompt", "done"}
              /\ pc' = "done" => UNCHANGED <<buf, proc, proc_in, worker, thread_exc, out>>
       /\ pc = "crashed" => UNCHANGED vars]_vars

\* in DEF_deep "show scenes | cat" has gone through capture and streaming and
\* has ended: cat has exited with what show_scenes wrote
C21_Witness ==
    /\ cli_def = DEF_deep
    /\ pc = "postcmd"
    /\ line = S_show \o <<SP>> \o S_scenes \o <<SP>> \o S_pipe \o <<SP>> \o S_cat
    /\ node = <<S_show, S_scenes, S_pipe, E_elem, E_cli_action>>
    /\ calls = <<"show_scenes">>
    /\ proc = "exited" /\ worker = "done"
    /\ proc_in = <<Msg("output", "show_scenes", <<>>)>>
    /\ out = <<>>

\* an _CLIArgument's complete is about to run on a line its contract splits
\* into a token and a remainder
CompletingArgumentOn ==
    /\ pc = "complete"
    /\ NodeAt(node).type = "_CLIArgument"
    /\ Splitline(NodeAt(node).def, rem)[2] # None

\* C22: in completion, an argument whose line has a remainder and whose token
\* fails validation reports and raises nothing and binds nothing: the context
\* is as it was, no value lies under the contract's binding name, and the
\* child's complete runs next with the remainder; a token that validates is
\* bound to the object it names.
C22_CompletionIgnoresInvalid ==
    [][CompletingArgumentOn =>
         LET def == NodeAt(node).def
             t == Splitline(def, rem)[1]
         IN  /\ pc' = "complete"
             /\ node' = Append(node, E_elem)
             /\ rem' = Splitline(def, rem)[2]
             /\ out' = out /\ exc' = exc /\ calls' = calls
             /\ IF Valid(def, t)
                THEN /\ HasKey(ctx'.args, def.ctx_name)
                     /\ def.cls # "_PipeArgDef" =>
                            Get(ctx'.args, def.ctx_name) \in {Lights[i] : i \in Named(def, t)}
                ELSE /\ ctx' = ctx
                     /\ ~HasKey(ctx'.args, def.ctx_name)]_vars

\* completion of "light id x s" has passed the argument, whose token x is no
\* light's id, and is at the child with the remainder and nothing bound
C22_Witness ==
    /\ pc = "complete"
    /\ line = S_light \o <<SP>> \o S_id \o <<SP, "x", SP, "s">>
    /\ node = <<S_light, S_id, E_elem>>
    /\ rem = <<"s">>
    /\ ctx.args = <<>>
    /\ out = <<>>

\* a _CLIList's complete is about to run
CompletingList == pc = "complete" /\ NodeAt(node).type = "_CLIList"

\* the completions C23 names for text typed at the list at node
Offered(typed) ==
    {k \o <<SP>> : k \in KeywordsWithPrefix(typed)}
        \cup (IF typed = <<>> /\ None \in Keys(NodeAt(node).elems) THEN {<<>>} ELSE {})

\* C23: a list's complete on a line with no remainder returns the keywords
\* other than the absent one that start with the text typed, each with one
\* space after it, and the empty string if and only if nothing was typed and
\* the list has the absent keyword: these and no others, each once.  On a
\* line with a remainder whose first token starts no keyword, or more than
\* one, it returns no completions.
C23_ListCompletions ==
    [][CompletingList =>
         LET typed == ListSplitline(rem)[1]
             remainder == ListSplitline(rem)[2]
         IN  /\ remainder = None =>
                    /\ pc' = "completed"
                    /\ ~results'.none
                    /\ {results'.list[i] : i \in 1..Len(results'.list)} = Offered(typed)
                    /\ Len(results'.list) = Cardinality(Offered(typed))
             /\ (remainder # None /\ Cardinality(KeywordsWithPrefix(typed)) # 1) =>
                    /\ pc' = "completed"
                    /\ results'.none
                    /\ results'.list = <<>>]_vars

\* "show lights " has been completed at the lights list with nothing typed:
\* its keywords and, for its absent keyword, the empty string
C23_Witness ==
    /\ cli_def = CLI_DEF
    /\ pc = "completed"
    /\ line = S_show \o <<SP>> \o S_lights \o <<SP>>
    /\ node = <<S_show, S_lights>>
    /\ results.list = <<S_detail \o <<SP>>, S_name \o <<SP>>, S_id \o <<SP>>,
                        S_pipe \o <<SP>>, <<>>>>

\* an _CLIArgument's complete is about to run on a line its contract does not
\* split: the text typed so far for the argument
CompletingArgumentText ==
    /\ pc = "complete"
    /\ NodeAt(node).type = "_CLIArgument"
    /\ Splitline(NodeAt(node).def, rem)[2] = None

\* the part of a candidate after the position of the last space of the text
\* typed; the whole candidate when the text has no space
AfterLastSpace(typed, cand) ==
    IF Contains(typed, <<SP>>) THEN From(cand, RIndexOf(typed, <<SP>>) + 1) ELSE cand

\* C24 as stated: an argument's complete with no remainder returns one entry
\* per candidate of the contract for the text typed, each entry being the part
\* of its candidate after the position of the last space of that text.
C24_Original ==
    [][CompletingArgumentText =>
         LET cands == DefComplete(NodeAt(node).def, rem)
         IN  /\ pc' = "completed"
             /\ Len(results'.list) = Len(cands)
             /\ \A i \in 1..Len(cands) :
                    results'.list[i] = AfterLastSpace(rem, cands[i])]_vars

\* C24, amended: an argument's complete with no remainder returns one entry
\* per candidate of the contract for the text typed, each entry being the part
\* of its candidate after the position of the last space of that text,
\* followed by one space; put in place of the last word typed, the entry
\* gives the candidate in full and a space.
C24_ArgumentCompletions ==
    [][CompletingArgumentText =>
         LET cands == DefComplete(NodeAt(node).def, rem)
         IN  /\ pc' = "completed"
             /\ ~results'.none
             /\ Len(results'.list) = Len(cands)
             /\ \A i \in 1..Len(cands) :
                    /\ results'.list[i] = AfterLastSpace(rem, cands[i]) \o <<SP>>
                    /\ Splice(rem, results'.list[i]) = cands[i] \o <<SP>>]_vars

\* "light name "Living Room"" has been completed at the argument: the one
\* candidate, cut after the space typed inside the name
C24_Witness ==
    /\ pc = "completed"
    /\ line = S_light \o <<SP>> \o S_name \o <<SP>> \o Quoted(Lights[1].name)
    /\ node = <<S_light, S_name>>
    /\ rem = Quoted(Lights[1].name)
    /\ results.list = << <<"R", "o", "o", "m", QT, SP>> >>

\* the tree is being run for a line, or for a completion request
Processing == pc \in {"exec", "complete"}

\* C25: the tree is entered, from onecmd or do_help for a line and from
\* completedefault for a completion request, at its root and with a context
\* whose keyword trail and bindings are empty and whose flag is unset; a
\* context is appended to, bound in or flagged only by the tree's own steps
\* for that line or request, so nothing of one is there for another.
C25_FreshContext ==
    [][/\ (Processing' /\ ~Processing) =>
              /\ pc \in {"onecmd", "prompt"}
              /\ node' = <<>>
              /\ ctx'.kws = <<>> /\ ctx'.args = <<>> /\ ctx'.end = FALSE
       /\ (ctx' # ctx /\ ~Processing) =>
              (ctx'.kws = <<>> /\ ctx'.args = <<>> /\ ctx'.end = FALSE)
       /\ (Processing /\ node = <<>>) => (ctx.kws = <<>> /\ ctx.args = <<>> /\ ~ctx.end)]_vars

\* the line "light id 1 on" is at the root of the tree with an empty context
C25_Witness ==
    /\ pc = "exec"
    /\ via = "direct"
    /\ node = <<>>
    /\ line = S_light \o <<SP>> \o S_id \o <<SP, "1", SP>> \o S_on
    /\ rem = line
    /\ ctx = [kws |-> <<>>, args |-> <<>>, end |-> FALSE]

\* an _CLIArgument's execute is about to run on an empty or absent line
AtArgumentWithNothing ==
    /\ pc = "exec"
    /\ NodeAt(node).type = "_CLIArgument"
    /\ Falsy(rem)

\* C26: an argument given an empty or absent remaining line prints a
\* missing-argument error that names its contract, and the line ends there:
\* nothing is raised, nothing is bound, the child does not run, no function
\* is called and no piped execution starts; so for every contract, the pipe's
\* shell command included.
C26_MissingArgument ==
    [][AtArgumentWithNothing =>
         /\ out' = Append(out, Msg("!! Missing argument", NodeAt(node).def.name, <<>>))
         /\ pc' = "postcmd"
         /\ exc' = exc
         /\ ctx' = ctx
         /\ ~HasKey(ctx'.args, NodeAt(node).def.ctx_name)
         /\ node' = node
         /\ calls' = calls
         /\ frame' = "top" /\ proc' = "none" /\ worker' = "none"]_vars

\* "show lights |" has ended in the missing-argument error for the shell
\* command, with nothing bound, nothing run and no process
C26_Witness ==
    /\ cli_def = CLI_DEF
    /\ pc = "postcmd"
    /\ line = S_show \o <<SP>> \o S_lights \o <<SP>> \o S_pipe
    /\ node = <<S_show, S_lights, S_pipe>>
    /\ out = <<Msg("!! Missing argument", "shell-cmd", <<>>)>>
    /\ ctx.args = <<>>
    /\ calls = <<>>
    /\ proc = "none"

\* an argument on the direct path is about to refuse its token
RefusesToken ==
    /\ AtArgument
    /\ via = "direct"
    /\ ~Valid(NodeAt(node).def, Splitline(NodeAt(node).def, rem)[1])

\* C27: the invalid-argument message printed for a token that fails
\* validation quotes the token as the user typed it, whatever value the
\* contract's failure carries.
C27_MessageQuotesRawToken ==
    [][RefusesToken =>
         /\ out'[Len(out')].msg = "Error: Invalid argument"
         /\ Contains(out'[Len(out')].text,
                     Splitline(NodeAt(node).def, rem)[1])]_vars

\* the token at a list is a keyword and also the opening part of another
\* keyword of that list
ExactAndPrefix ==
    /\ AtList
    /\ Token # <<>>
    /\ Token \in Keys(NodeAt(node).elems)
    /\ KeywordsWithPrefix(Token) # {Token}

\* C28: a token equal to a keyword of the list runs that keyword's child with
\* the rest of the line, also when other keywords of the list start with it:
\* nothing is reported as ambiguous, and the trail grows by that keyword.  A
\* list runs a child under a keyword other than its token only when the token
\* is no keyword of the list.
C28_ExactBeforePrefix ==
    [][/\ ExactAndPrefix =>
              /\ pc' = "exec"
              /\ node' = Append(node, Token)
              /\ rem' = ListSplitline(rem)[2]
              /\ ctx'.kws = Append(ctx.kws, Token)
              /\ out' = out
       /\ (AtList /\ node' # node /\ node'[Len(node')] # Token) =>
              Token \notin Keys(NodeAt(node).elems)]_vars

\* in DEF_prefix "light on" has been dispatched through light, a keyword that
\* lights starts with
C28_Witness ==
    /\ cli_def = DEF_prefix
    /\ pc = "exec"
    /\ via = "direct"
    /\ line = S_light \o <<SP>> \o S_on
    /\ node = <<S_light>>
    /\ rem = S_on
    /\ ctx.kws = <<S_light>>
    /\ out = <<>>

\* C29: a KeyboardInterrupt raised while the loop waits for a line, with no
\* piped execution under way, prints ^C and leaves the console at the prompt:
\* the loop has not ended, no exception has left it, no line is handed to
\* onecmd by that step, and the next line can be read as before.  From the
\* prompt the console goes only to a line read or to a completion request.
C29_InterruptAtPrompt ==
    [][/\ InterruptPrompt =>
              /\ pc' = "prompt"
              /\ out' = <<CtrlC>>
              /\ exc' = exc /\ eof' = eof
              /\ line' = line /\ calls' = calls /\ ctx' = ctx
              /\ proc' = "none" /\ worker' = "none"
              /\ cli_list' = cli_list
       /\ pc = "prompt" => pc' \in {"prompt", "onecmd", "complete"}
       /\ (pc = "prompt" /\ pc' = "onecmd") => (line' \in InputLines \/ line' = S_EOF)]_vars

\* the console waits at the prompt again after an interrupt: ^C is all that
\* was printed, no line is held, nothing was called, no process or worker exists
C29_Witness ==
    /\ cli_def = DEF_pipe
    /\ pc = "prompt"
    /\ out = <<CtrlC>>
    /\ line = <<>> /\ calls = <<>>
    /\ ~eof /\ exc = "None"
    /\ proc = "none" /\ worker = "none"
    /\ stray = <<>>

\* a quoted-name argument's execute or complete is about to split a line
AtNameArgument ==
    /\ pc \in {"exec", "complete"}
    /\ NodeAt(node).type = "_CLIArgument"
    /\ NodeAt(node).def.cls = "ObjectNameArg"
    /\ rem # None

\* the positions, after the first character, of a quote followed by a space
Closers(text) == {i \in 2..(Len(text) - 1) : text[i] = QT /\ text[i + 1] = SP}

\* the first of them
FirstCloser(text) == CHOOSE i \in Closers(text) : \A j \in Closers(text) : i <= j

\* the position of the first space
FirstSpace(text) ==
    CHOOSE i \in 1..Len(text) : text[i] = SP /\ \A j \in 1..(i - 1) : text[j] # SP

\* the split C30 names; strip says what is done to the text after the space
\* that follows the closing quote
QuotedSplit(text, strip) ==
    IF text # <<>> /\ text[1] = QT
    THEN IF Closers(text) = {}
         THEN <<text, None>>
         ELSE LET after == SubSeq(text, FirstCloser(text) + 2, Len(text))
              IN  <<SubSeq(text, 1, FirstCloser(text)),
                    IF strip THEN LStrip(after) ELSE after>>
    ELSE IF \E i \in 1..Len(text) : text[i] = SP
    THEN <<SubSeq(text, 1, FirstSpace(text) - 1),
           SubSeq(text, FirstSpace(text) + 1, Len(text))>>
    ELSE <<text, None>>

\* C30 as stated: on text that starts with a quote the token ends with the
\* first later quote that a space follows and the remainder is the text after
\* that space; with no such quote the whole text is the token and there is no
\* remainder; other text is split at its first space.
C30_Original ==
    AtNameArgument => Splitline(NodeAt(node).def, rem) = QuotedSplit(rem, FALSE)

\* C30, amended: on text that starts with a quote the token ends with the
\* first later quote that a space follows and the remainder is the text after
\* that space with the blanks at its start removed; with no such quote the
\* whole text is the token and there is no remainder; other text is split at
\* its first space.  Completion goes on with that remainder, or ends at the
\* argument when there is none.
C30_QuotedSplit ==
    [][AtNameArgument =>
         /\ Splitline(NodeAt(node).def, rem) = QuotedSplit(rem, TRUE)
         /\ pc = "complete" =>
                IF QuotedSplit(rem, TRUE)[2] = None
                THEN pc' = "completed" /\ node' = node
                ELSE /\ pc' = "complete"
                     /\ node' = Append(node, E_elem)
                     /\ rem' = QuotedSplit(rem, TRUE)[2]]_vars

\* "light name "Living Room"  x" has been split at the name argument: the
\* child is given "x", the text after the two spaces that follow the quote
C30_Witness ==
    /\ pc = "exec"
    /\ line = S_light \o <<SP>> \o S_name \o <<SP>> \o Quoted(Lights[1].name) \o <<SP, SP, "x">>
    /\ node = <<S_light, S_name, E_elem>>
    /\ rem = <<"x">>
    /\ Get(ctx.args, "light") = Lights[1]

\* ------------------------------------------------------------------------
\* Properties of capture, of help, of the worker and of the banner
\* ------------------------------------------------------------------------

\* what the node about to run prints in this step
Printed ==
    LET s == Execute(NodeAt(node), ctx, rem)
    IN  IF s.act = "call" THEN HandlerOutput(s.function)
        ELSE IF s.act = "return" THEN s.out
        ELSE <<>>

\* a step of the foreground, as against one of a worker or of a process
Foreground == <<pc, node, rem, ctx, calls, frame>>' # <<pc, node, rem, ctx, calls, frame>>

\* C31: while _run_pipe runs the wrapped element, whatever that element
\* prints is added to the buffer and the console's output does not change;
\* the redirection begins only in the step in which _run_pipe enters the
\* wrapped element, with an empty buffer, lasts only while that element
\* executes, and is gone in the step in which the element returns or an
\* exception leaves it; outside it nothing is added to the buffer.
C31_CaptureRedirect ==
    [][/\ frame = "pipe" => (pc = "exec" /\ PipeBegun)
       /\ (frame = "pipe" /\ ~InterruptCapture) =>
              (out' = out /\ buf' = IF Foreground THEN buf \o Printed ELSE buf)
       /\ (frame = "pipe" /\ pc' # "exec") => frame' = "top"
       /\ InterruptCapture => (frame' = "top" /\ out' = <<CtrlC>> /\ pc' = "prompt")
       /\ (frame = "top" /\ frame' = "pipe") =>
              (pc = "exec" /\ NodeAt(node).type = "_PipeAction" /\ buf' = <<>>)
       /\ (frame = "top" /\ frame' = "top" /\ pc' # "prompt") => buf' = buf]_vars

\* "show | cat": the wrapped show_lights has returned; what it printed is in
\* the buffer, the console shows nothing and the redirection is over
C31_Witness ==
    /\ cli_def = DEF_pipe
    /\ pc = "pipe_which"
    /\ line = S_show \o <<SP>> \o S_pipe \o <<SP>> \o S_cat
    /\ frame = "top"
    /\ calls = <<"show_lights">>
    /\ buf = HandlerOutput("show_lights")
    /\ out = <<>>

\* C32: the function of the help keyword's action, which is absent, is never
\* called: no line read at the prompt brings the dispatcher to call it, so the
\* console is never left by the TypeError that calling it raises.
C32_HelpHandlerNeverCalled ==
    ~(/\ pc = "crashed" /\ exc = "TypeError"
      /\ NodeAt(node).type = "_CLIAction"
      /\ NodeAt(node).function = "None")

\* C33: while a line whose command word is help is processed, no action
\* function of the tree has been called and no external process exists,
\* whatever follows the word help.
C33_HelpOnlyRendersHelp ==
    via = "help" => (calls = <<>> /\ proc = "none")

\* the worker of a piped execution has ended and the process has not received
\* the captured buffer
Undelivered == worker = "done" /\ proc_in # buf

\* C34: when a piped line that spawned a process is over and its worker ended
\* without the whole buffer written to the process, whatever made the worker
\* fail, the console has printed the Error: line of a command failure.
C34_WorkerFailureReported ==
    (pc = "postcmd" /\ proc # "none" /\ Undelivered) =>
        \E i \in 1..Len(out) : out[i] = ErrorLine(Msg(thread_exc, "", <<>>))

\* the step prints the not-found failure of a piped execution
NotFoundPrinted ==
    \E i \in 1..Len(out') :
        /\ out' = Append(out, out'[i])
        /\ out'[i].msg = "Error: Shell command not found"

\* C35: in a piped execution the wrapped action's function is called exactly
\* once, while capturing and before the shell command's first word is looked
\* up: the lookup is made with that one call done, its output in the buffer
\* and its effect on the context in place; no step after it calls anything;
\* and the not-found failure is raised only from the lookup, so only after
\* the call, which it leaves as it is.
C35_ActionOnceBeforeLookup ==
    [][/\ (PipeBegun /\ calls' # calls /\ pc' # "prompt") =>
              /\ Capturing /\ calls = <<>> /\ Len(calls') = 1
              /\ pc' = "pipe_which"
              /\ buf' = HandlerOutput(calls'[1])
              /\ ctx' = HandlerRun(calls'[1], ctx)
       /\ pc = "pipe_which" => (Len(calls) = 1 /\ buf = HandlerOutput(calls[1]))
       /\ Streaming => calls' = calls
       /\ (pc = "pipe_which" /\ ~Resolves) =>
              /\ RaisesCommandError(Msg("Shell command not found", "", FirstWord(ShellCmd)))
              /\ calls' = calls /\ ctx' = ctx /\ buf' = buf
       /\ NotFoundPrinted => (pc = "pipe_which" /\ Len(calls) = 1)]_vars

\* "show lights | nosuch" has ended in the not-found error after show_lights
\* has been called once
C35_Witness ==
    /\ cli_def = CLI_DEF
    /\ pc = "postcmd"
    /\ line = S_show \o <<SP>> \o S_lights \o <<SP>> \o S_pipe \o <<SP>> \o S_nosuch
    /\ calls = <<"show_lights">>
    /\ buf = HandlerOutput("show_lights")
    /\ proc = "none"
    /\ out = <<ErrorLine(Msg("Shell command not found", "", S_nosuch))>>

\* the keywords of the branches taken from the root to the node
Trail == SelectSeq(node, LAMBDA e : e \notin {E_elem, E_cli_action})

\* C36: when complete reaches a node, the keyword trail of its context is the
\* one execute has when it reaches that node: the full keywords of the
\* branches taken from the root, in order.
C36_SameTrail ==
    pc \in {"exec", "complete"} => ctx.kws = Trail

\* a completion is under way or has just returned
Completing == pc \in {"complete", "completed"}

\* C37: from the entry of a completion to its return no action function is
\* called, no process is spawned, no worker is started, nothing is captured
\* and nothing is printed, whatever node the partial line reaches; at an
\* action, plain or pipe, complete returns no completions at once.
C37_CompletionCallsNothing ==
    [][/\ (Completing \/ Completing') =>
              /\ calls' = <<>> /\ out' = <<>>
              /\ proc' = "none" /\ worker' = "none" /\ proc_in' = <<>>
              /\ frame' = "top" /\ buf' = <<>>
              /\ exc' = exc /\ stop' = "None"
       /\ Completing => pc' \in {"complete", "completed", "prompt"}
       /\ (pc = "complete" /\ NodeAt(node).type \in {"_CLIAction", "_PipeAction"}) =>
              (pc' = "completed" /\ results'.none /\ ctx' = ctx)]_vars

\* the completion of "light id 1 on " in the console of CLI_DEF has reached
\* the action of light_on and has returned no completions; nothing was called
C37_Witness ==
    /\ cli_def = CLI_DEF
    /\ pc = "completed"
    /\ NodeAt(node).type = "_CLIAction"
    /\ NodeAt(node).function = "light_on"
    /\ Get(ctx.args, "light") = Lights[1]
    /\ results.none
    /\ calls = <<>>
    /\ proc = "none"

\* how many times the banner stands in what has been printed
Banners(o) == Len(SelectSeq(o, LAMBDA m : m = Intro))

\* the loop is restarted by a KeyboardInterrupt that reached cmdloop
Restart == InterruptPrompt \/ InterruptEscape \/ InterruptCapture

\* C38: the banner is printed once, in the step in which the command loop is
\* first entered, ahead of the first prompt; no later step prints it, and a
\* restart of the loop after an interrupt prints ^C and no banner, at every
\* interrupt.
C38_BannerOnce ==
    [][/\ (pc = "init" /\ pc' = "prompt") => out' = <<Intro>>
       /\ pc # "init" => Banners(out') <= Banners(out)
       /\ Restart => (out' = <<CtrlC>> /\ pc' = "prompt")
       /\ Banners(out') <= 1]_vars

\* the loop has been restarted by an interrupt that left a piped execution
\* with its process and worker running: ^C is on the screen and no banner
C38_Witness ==
    /\ cli_def = DEF_pipe
    /\ pc = "prompt"
    /\ out = <<CtrlC>>
    /\ stray = <<"fed">>

====
